---- MODULE Spec2Model ----
(***************************************************************************)
(* A model of the ATSC 3.0 L1 signaling decoder of hdhomerun_tui.c:        *)
(* get_bits, the add_line macro and parse_l1_data, run over byte buffers   *)
(* of bounded size.  One action is one block of the decoder's grammar.     *)
(*                                                                         *)
(* The uint64_t that get_bits returns is kept as its four 16-bit limbs.    *)
(* A value of at most 31 bits is shown as one integer; wider ones (the     *)
(* 32-bit CRCs and L1D_time_sec, the 47-bit L1B_reserved) exceed TLC's     *)
(* integers and are shown as the MSB-first sequence of their digits (4-bit *)
(* hex digits for %08lX, 16-bit digits for %lu).                           *)
(***************************************************************************)
EXTENDS Integers, Sequences, FiniteSets, TLC

VARIABLES
    data,                     \* the decoded L1 bytes handed to parse_l1_data
    len,                      \* its length in bytes
    max_lines,                \* the cap passed as max_lines
    pc,                       \* the block of parse_l1_data that runs next
    bit_offset,
    display_lines,            \* the lines parse_l1_data appended
    line_count,
    L1B_num_subframes,
    L1B_time_info_flag,
    L1B_first_sub_sbs_first,
    L1B_first_sub_sbs_last,
    L1B_first_sub_mimo,
    L1B_first_sub_mimo_mixed,
    L1D_mimo_mixed,
    L1D_num_rf,
    L1D_mimo,
    L1D_num_plp,
    i,                        \* subframe loop counter
    j,                        \* PLP loop counter
    reads,                    \* history: the get_bits calls of the last block
    max_byte_read,            \* history: highest byte index get_bits touched
    records,                  \* history: per subframe, its L1D_num_plp and the PLP records decoded
    detail_size,              \* history: L1B_L1_Detail_size_bytes as read (-1: not read)
    detail_at,                \* history: bit offset at which L1-Detail starts (-1: not yet)
    crc_at,                   \* history: bit offset at which L1D_crc was read (-1: not read)
    trailer_at,               \* history: bit offset at which the trailer started (-1: not yet)
    grammar_offset,           \* history: the widths of all fields the grammar has come to, summed
    call                      \* a helper function under test: its arguments and what it returned

vars == <<data, len, max_lines, pc, bit_offset, display_lines, line_count,
          L1B_num_subframes, L1B_time_info_flag, L1B_first_sub_sbs_first,
          L1B_first_sub_sbs_last, L1B_first_sub_mimo, L1B_first_sub_mimo_mixed,
          L1D_mimo_mixed, L1D_num_rf, L1D_mimo, L1D_num_plp, i, j,
          reads, max_byte_read, records, detail_size, detail_at, crc_at, trailer_at,
          grammar_offset, call>>

(***************************************************************************)
(* Program constants.                                                      *)
(***************************************************************************)
MAX_PLPS == 64

MAX_DISPLAY_LINES == MAX_PLPS * 15 + 150

Max(a, b) == IF a >= b THEN a ELSE b

Pow2(n) == 2 ^ n

(***************************************************************************)
(* Memory as get_bits sees it.  The buffer comes from base64_decode, which *)
(* allocates out_len + 1 bytes and stores '\0' at index out_len.  What     *)
(* lies behind that is not the program's to read: a bit read there is 0 or *)
(* 1, whichever the memory happens to hold, and get_bits has no say in it. *)
(***************************************************************************)
\* buffer[byte_pos] for a byte of the allocation.
ByteAt(buffer, byte_pos) ==
    IF byte_pos < Len(buffer) THEN buffer[byte_pos + 1] ELSE 0

BitAt(buffer, p) == (ByteAt(buffer, p \div 8) \div Pow2(7 - (p % 8))) % 2

\* One turn of the loop of get_bits.  r.i is the loop variable, r.result the
\* uint64_t result as four 16-bit limbs, the least significant first, and
\* r.bit_offset is *bit_offset: bit num_bits - 1 - i is set if the bit at the
\* cursor is 1, and the cursor goes one bit on.  A bit read behind the
\* allocation leaves its place in r.result 0 and names the place in r.any:
\* the result the code returns is r.result with any of the bits of r.any set.
get_bits_turn(buffer, num_bits, r) ==
    LET byte_pos == r.bit_offset \div 8
        bit_pos  == 7 - (r.bit_offset % 8)
        place    == num_bits - 1 - r.i
    IN  IF byte_pos > Len(buffer)
        THEN [r EXCEPT !.any = @ \cup {place}, !.bit_offset = @ + 1, !.i = @ + 1]
        ELSE IF (ByteAt(buffer, byte_pos) \div Pow2(bit_pos)) % 2 = 1
        THEN [r EXCEPT !.result[(place \div 16) + 1] = @ + Pow2(place % 16),
                       !.bit_offset = @ + 1, !.i = @ + 1]
        ELSE [r EXCEPT !.bit_offset = @ + 1, !.i = @ + 1]

\* The next turns of the loop, as many as turns says and i < num_bits
\* allows, one after the other: the first half of them, then the rest.
RECURSIVE get_bits_loop(_, _, _, _)
get_bits_loop(buffer, num_bits, turns, r) ==
    IF turns <= 0 \/ r.i >= num_bits THEN r
    ELSE IF turns = 1 THEN get_bits_turn(buffer, num_bits, r)
    ELSE get_bits_loop(buffer, num_bits, turns - turns \div 2,
                       get_bits_loop(buffer, num_bits, turns \div 2, r))

\* A get_bits that starts one bit behind the cursor.
get_bits_late(buffer, bit_offset_, num_bits) ==
    get_bits_loop(buffer, num_bits, num_bits,
                  [i |-> 0, result |-> <<0, 0, 0, 0>>, any |-> {},
                   bit_offset |-> bit_offset_ + 1])

\* A get_bits that leaves the cursor where it was.
get_bits_rewound(buffer, bit_offset_, num_bits) ==
    [get_bits_loop(buffer, num_bits, num_bits,
                   [i |-> 0, result |-> <<0, 0, 0, 0>>, any |-> {},
                    bit_offset |-> bit_offset_])
        EXCEPT !.bit_offset = bit_offset_]

\* get_bits(buffer, &bit_offset, num_bits) for num_bits <= 64: the loop run
\* to its end, with the result and *bit_offset as it leaves them.
get_bits(buffer, bit_offset_, num_bits) ==
    get_bits_loop(buffer, num_bits, num_bits,
                  [i |-> 0, result |-> <<0, 0, 0, 0>>, any |-> {},
                   bit_offset |-> bit_offset_])

\* A result of at most 31 bits as one integer.
ULong(result) == result[1] + 65536 * result[2]

\* The num_bits bits of a result as digits of chunk bits each, chunk being 4
\* or 16, the most significant first.
ULongDigits(result, num_bits, chunk) ==
    LET n == (num_bits + chunk - 1) \div chunk
    IN  [d \in 1..n |->
            (result[(((n - d) * chunk) \div 16) + 1] \div Pow2(((n - d) * chunk) % 16))
                % Pow2(chunk)]

(***************************************************************************)
(* The name tables.                                                        *)
(***************************************************************************)
L1B_papr_reduction_map == <<"None", "TR-PAPR", "L-PAPR", "Reserved">>

L1B_L1_Detail_fec_type_map ==
    <<"BCH+LDPC 16K", "BCH+LDPC 64K", "CRC+LDPC 16K", "CRC+LDPC 64K",
      "LDPC 16K", "LDPC 64K", "Reserved", "Reserved">>

L1B_L1_Detail_additional_parity_mode_map == <<"0%", "2.5%", "5%", "7.5%">>

\* A table with its last name missing.
L1B_first_sub_fft_size_map_short == <<"8K", "16K", "32K">>

L1B_first_sub_fft_size_map == <<"8K", "16K", "32K", "Reserved">>

L1B_first_sub_guard_interval_map ==
    <<"GI_1/192", "GI_2/384", "GI_3/384", "GI_4/384", "GI_6/384", "GI_7/384",
      "GI_8/384", "GI_9/384", "GI_10/384", "GI_12/384", "GI_13/384", "GI_14/384",
      "GI_15/384", "GI_16/384", "GI_18/384", "GI_20/384">>

L1B_first_sub_scattered_pilot_boost_map ==
    <<"0dB", "3dB", "4.77dB", "6dB", "7.78dB", "9.54dB", "Reserved", "Reserved">>

L1D_plp_fec_type_map ==
    <<"BCH+LDPC 16K", "BCH+LDPC 64K", "CRC+LDPC 16K", "CRC+LDPC 64K",
      "LDPC 16K (no BCH)", "LDPC 64K (no BCH)", "Reserved", "Reserved",
      "BCH+LDPC 16K", "BCH+LDPC 64K", "CRC+LDPC 16K", "CRC+LDPC 64K",
      "LDPC 16K", "LDPC 64K", "Reserved", "Reserved">>

L1D_plp_mod_map ==
    <<"QPSK", "16-QAM", "64-QAM", "256-QAM", "1024-QAM", "4096-QAM", "N/A", "N/A",
      "QPSK", "16-QAM", "64-QAM", "256-QAM", "1024-QAM", "4096-QAM", "N/A", "N/A">>

L1D_plp_cod_map ==
    <<"2/15", "3/15", "4/15", "5/15", "6/15", "7/15", "8/15", "9/15",
      "10/15", "11/15", "12/15", "13/15", "N/A", "N/A", "N/A", "N/A">>

\* map[index] of the C code: an index past the table reads whatever follows it.
MapName(map, index) == IF index < Len(map) THEN map[index + 1] ELSE "<out of table>"

(***************************************************************************)
(* The statements parse_l1_data is made of.  A reader r carries the bit    *)
(* cursor, the line count, the lines and reads of the running block, and   *)
(* the locals.                                                             *)
(*   Hdr   add_line(fmt, pre...)                no read                    *)
(*   In    add_line(fmt, pre..., get_bits(w))   the read is an argument of *)
(*         the macro, so it sits inside the macro's if                     *)
(*   Var   x = get_bits(w); add_line(fmt, x)                               *)
(*   VarEn x = get_bits(w); add_line(fmt, map[x])                          *)
(*   Skip  get_bits(w);                                                    *)
(***************************************************************************)
Hdr(fmt, pre) == [k |-> "hdr", fmt |-> fmt, pre |-> pre]

In(fmt, pre, w) == [k |-> "in", fmt |-> fmt, pre |-> pre, w |-> w, note |-> ""]

\* An In whose value is also kept in the history field r.note[note].
InNoted(fmt, w, note) == [k |-> "in", fmt |-> fmt, pre |-> <<>>, w |-> w, note |-> note]

InWide(fmt, w, chunk) == [k |-> "inw", fmt |-> fmt, w |-> w, chunk |-> chunk]

Var(fmt, w, key) == [k |-> "var", fmt |-> fmt, pre |-> <<>>, w |-> w, key |-> key]

VarAt(fmt, pre, w, key) == [k |-> "var", fmt |-> fmt, pre |-> pre, w |-> w, key |-> key]

VarEn(fmt, w, key, map) == [k |-> "en", fmt |-> fmt, w |-> w, key |-> key, map |-> map]

Skip(w) == [k |-> "skip", w |-> w]

Line(fmt, args) == [fmt |-> fmt, args |-> args]

\* A Var statement that printed its variable with a bias of one.
VarArg_biased(v) == v + 1

\* The argument a Var statement prints: the variable it has just assigned.
VarArg(v) == v

\* The add_line macro: the line is stored only below the cap.
add_line(r, fmt, args) ==
    IF r.n < max_lines
    THEN [r EXCEPT !.lines = Append(@, Line(fmt, args)), !.n = @ + 1]
    ELSE r

\* The get_bits call of the statement s at the cursor, g being what it
\* returned: the value v as it is shown (one integer, or the digits of a
\* wide value), the table name it is rendered as ("" when it is printed as
\* a number), and the variable it is assigned to.  A call that read behind
\* the allocation makes the reader stray: what it returned is not the
\* buffer's, no variable is assigned from it, and v is the result with the
\* bits that any names taken as 0, one of the values it may have.
Took(r, s, g) ==
    LET v == IF s.k = "inw" THEN ULongDigits(g.result, s.w, s.chunk) ELSE ULong(g.result)
    IN  [r EXCEPT !.off = g.bit_offset,
                  !.due = @ + s.w,
                  !.rd  = Append(@, [f |-> IF s.k = "skip" THEN "reserved" ELSE s.fmt,
                                     w |-> s.w, v |-> v, at |-> r.off,
                                     shown |-> IF s.k = "en" THEN MapName(s.map, v) ELSE "",
                                     any |-> g.any]),
                  !.hi  = IF g.bit_offset = r.off THEN @
                          ELSE Max(@, (g.bit_offset - 1) \div 8),
                  !.stray = g.any # {},
                  !.loc = IF s.k \in {"var", "en"} /\ g.any = {}
                          THEN [@ EXCEPT ![s.key] = v] ELSE @,
                  !.note = IF s.k = "in" /\ g.any = {} /\ s.note # ""
                           THEN [@ EXCEPT ![s.note] = v] ELSE @]

\* The add_line of the statement s for the value just read, t being the
\* reader behind the read.  The line of a stray read is not among t.lines.
Shown(t, s) ==
    IF t.stray \/ s.k = "skip" THEN t
    ELSE add_line(t, s.fmt,
                  CASE s.k = "in"  -> s.pre \o <<t.rd[Len(t.rd)].v>>
                    [] s.k = "inw" -> <<t.rd[Len(t.rd)].v>>
                    [] s.k = "var" -> s.pre \o <<VarArg(t.rd[Len(t.rd)].v)>>
                    [] s.k = "en"  -> <<t.rd[Len(t.rd)].shown>>)

\* The statement s at the reader r.  With the line count at the cap an In
\* makes no call: add_line does not evaluate its arguments.
Do(r, s) ==
    IF s.k = "hdr" THEN add_line(r, s.fmt, s.pre)
    ELSE IF s.k \in {"in", "inw"} /\ r.n >= max_lines THEN [r EXCEPT !.due = @ + s.w]
    ELSE Shown(Took(r, s, get_bits(data, r.off, s.w)), s)

\* The statements in program order, the first half of them and then the
\* second; the cursor is never negative.  Behind a
\* stray read nothing is told of the block: what it reads and shows from
\* there on, and which way it takes, comes from memory that is not the
\* buffer's.
RECURSIVE Run(_, _)
Run(r, stmts) ==
    IF Len(stmts) = 0 \/ r.off < 0 \/ r.stray THEN r
    ELSE IF Len(stmts) = 1 THEN Do(r, stmts[1])
    ELSE Run(Run(r, SubSeq(stmts, 1, Len(stmts) \div 2)),
             SubSeq(stmts, Len(stmts) \div 2 + 1, Len(stmts)))

(***************************************************************************)
(* The blocks of parse_l1_data, each a function from reader to reader.     *)
(***************************************************************************)
FrameLengthFork(frame_length_mode) ==
    IF frame_length_mode = 0
    THEN <<In("L1B_frame_length: %lu", <<>>, 10),
           In("L1B_excess_samples_per_symbol: %lu", <<>>, 13)>>
    ELSE <<In("L1B_time_offset: %lu", <<>>, 16),
           In("L1B_additional_samples: %lu", <<>>, 7)>>

L1Basic(r) ==
    LET a == Run(r, <<
                Hdr("--- L1-Basic Signaling ---", <<>>),
                In("L1B_version: %lu", <<>>, 3),
                In("L1B_mimo_scattered_pilot_encoding: %lu", <<>>, 1),
                In("L1B_lls_flag: %lu", <<>>, 1),
                Var("L1B_time_info_flag: %lu", 2, "L1B_time_info_flag"),
                In("L1B_return_channel_flag: %lu", <<>>, 1),
                VarEn("L1B_papr_reduction: %s", 2, "papr", L1B_papr_reduction_map),
                Var("L1B_frame_length_mode: %lu", 1, "frame_length_mode")>>)
        b == Run(a, FrameLengthFork(a.loc.frame_length_mode))
    IN  Run(b, <<
                Var("L1B_num_subframes: %lu", 8, "L1B_num_subframes"),
                In("L1B_preamble_num_symbols: %lu", <<>>, 3),
                In("L1B_preamble_reduced_carriers: %lu", <<>>, 3),
                In("L1B_L1_Detail_content_tag: %lu", <<>>, 2),
                InNoted("L1B_L1_Detail_size_bytes: %lu", 13, "detail_size"),
                VarEn("L1B_L1_Detail_fec_type: %s", 3, "l1d_fec", L1B_L1_Detail_fec_type_map),
                VarEn("L1B_L1_Detail_additional_parity_mode: %s", 2, "l1d_parity",
                      L1B_L1_Detail_additional_parity_mode_map),
                In("L1B_L1_Detail_total_cells: %lu", <<>>, 19),
                Var("L1B_first_sub_mimo: %lu", 1, "L1B_first_sub_mimo"),
                In("L1B_first_sub_miso: %lu", <<>>, 2),
                VarEn("L1B_first_sub_fft_size: %s", 2, "fft_size", L1B_first_sub_fft_size_map),
                In("L1B_first_sub_reduced_carriers: %lu", <<>>, 3),
                VarEn("L1B_first_sub_guard_interval: %s", 4, "gi",
                      L1B_first_sub_guard_interval_map),
                In("L1B_first_sub_num_ofdm_symbols: %lu", <<>>, 11),
                In("L1B_first_sub_scattered_pilot_pattern: %lu", <<>>, 5),
                VarEn("L1B_first_sub_scattered_pilot_boost: %s", 3, "sp_boost",
                      L1B_first_sub_scattered_pilot_boost_map),
                Var("L1B_first_sub_sbs_first: %lu", 1, "L1B_first_sub_sbs_first"),
                Var("L1B_first_sub_sbs_last: %lu", 1, "L1B_first_sub_sbs_last"),
                Var("L1B_first_sub_mimo_mixed: %lu", 1, "L1B_first_sub_mimo_mixed"),
                InWide("L1B_reserved: %lu", 47, 16),
                InWide("L1B_crc: 0x%08lX", 32, 4)>>)

BondedBsids(L1D_num_rf_) ==
    IF L1D_num_rf_ = 0 THEN <<>>
    ELSE [x \in 1..(2 * L1D_num_rf_) |->
            IF x % 2 = 1
            THEN In("  L1D_bonded_bsid[%lu]: %lu", <<(x - 1) \div 2>>, 16)
            ELSE Skip(3)]

TimeInfo(flag) ==
    (IF flag # 0
     THEN <<InWide("L1D_time_sec: %lu", 32, 16), In("L1D_time_msec: %lu", <<>>, 10)>>
     ELSE <<>>)
    \o (IF flag # 0 /\ flag # 1 THEN <<In("L1D_time_usec: %lu", <<>>, 10)>> ELSE <<>>)
    \o (IF flag # 0 /\ flag # 1 /\ flag # 2
        THEN <<In("L1D_time_nsec: %lu", <<>>, 10)>> ELSE <<>>)

L1DetailHeader(r) ==
    LET a == Run(r, <<
                Hdr(" ", <<>>),
                Hdr("--- L1-Detail Signaling ---", <<>>),
                In("L1D_version: %lu", <<>>, 4),
                Var("L1D_num_rf: %lu", 3, "L1D_num_rf")>>)
        b == Run(a, BondedBsids(a.loc.L1D_num_rf))
    IN  Run(b, TimeInfo(b.loc.L1B_time_info_flag))

SubframeParams(i_) ==
    IF i_ > 0
    THEN <<Var("  L1D_mimo: %lu", 1, "L1D_mimo"),
           In("  L1D_miso: %lu", <<>>, 2),
           VarEn("  L1D_fft_size: %s", 2, "l1d_fft", L1B_first_sub_fft_size_map),
           In("  L1D_reduced_carriers: %lu", <<>>, 3),
           VarEn("  L1D_guard_interval: %s", 4, "l1d_gi", L1B_first_sub_guard_interval_map),
           In("  L1D_num_ofdm_symbols: %lu", <<>>, 11),
           In("  L1D_scattered_pilot_pattern: %lu", <<>>, 5),
           VarEn("  L1D_scattered_pilot_boost: %s", 3, "l1d_sp_boost",
                 L1B_first_sub_scattered_pilot_boost_map),
           Var("  L1D_sbs_first: %lu", 1, "L1D_sbs_first"),
           Var("  L1D_sbs_last: %lu", 1, "L1D_sbs_last")>>
    ELSE <<>>

HasSbsNullCells(i_, loc) ==
    \/ i_ = 0 /\ (loc.L1B_first_sub_sbs_first # 0 \/ loc.L1B_first_sub_sbs_last # 0)
    \/ i_ > 0 /\ (loc.L1D_sbs_first # 0 \/ loc.L1D_sbs_last # 0)

SubframeHeader(r, i_) ==
    LET z == [r EXCEPT !.loc.L1D_mimo = 0, !.loc.L1D_sbs_first = 0, !.loc.L1D_sbs_last = 0]
        a == Run(z, <<Hdr(" ", <<>>), Hdr("Subframe #%lu:", <<i_>>)>> \o SubframeParams(i_))
    IN  Run(a, (IF a.loc.L1B_num_subframes > 0
                THEN <<In("  L1D_subframe_multiplex: %lu", <<>>, 1)>> ELSE <<>>)
               \o <<In("  L1D_frequency_interleaver: %lu", <<>>, 1)>>
               \o (IF HasSbsNullCells(i_, a.loc)
                   THEN <<In("  L1D_sbs_null_cells: %lu", <<>>, 13)>> ELSE <<>>)
               \o <<Var("  L1D_num_plp: %lu", 6, "L1D_num_plp")>>)

\* The mod/cod pair is present only for the FEC types 0..5.
PlpModCod(L1D_plp_fec_type) ==
    IF L1D_plp_fec_type <= 5
    THEN <<VarEn("      L1D_plp_mod: %s", 4, "L1D_plp_mod", L1D_plp_mod_map),
           VarEn("      L1D_plp_cod: %s", 4, "L1D_plp_cod", L1D_plp_cod_map)>>
    ELSE <<>>

\* What follows L1D_plp_TI_mode.
PlpTIStart(L1D_plp_TI_mode) ==
    IF L1D_plp_TI_mode = 0
    THEN <<In("      L1D_plp_fec_block_start: %lu", <<>>, 15)>>
    ELSE IF L1D_plp_TI_mode = 1
    THEN <<In("      L1D_plp_CTI_fec_block_start: %lu", <<>>, 22)>>
    ELSE <<>>

PlpBondedRfIds(n) ==
    IF n > 0
    THEN <<In("      L1D_plp_channel_bonding_format: %lu", <<>>, 2)>>
         \o [x \in 1..n |-> In("        L1D_plp_bonded_rf_id[%lu]: %lu", <<x - 1>>, 3)]
    ELSE <<>>

PlpMimo(i_, loc) ==
    IF (i_ = 0 /\ loc.L1B_first_sub_mimo = 1) \/ (i_ > 0 /\ loc.L1D_mimo = 1)
    THEN <<In("      L1D_plp_mimo_stream_combining: %lu", <<>>, 1),
           In("      L1D_plp_mimo_IQ_interleaving: %lu", <<>>, 1),
           In("      L1D_plp_mimo_PH: %lu", <<>>, 1)>>
    ELSE <<>>

\* The L1D_plp_HTI_num_fec_blocks entries of a hybrid-interleaved PLP.
PlpHtiFecBlocks(L1D_plp_HTI_inter_subframe, L1D_plp_HTI_num_ti_blocks) ==
    IF L1D_plp_HTI_inter_subframe = 0
    THEN <<In("      L1D_plp_HTI_num_fec_blocks: %lu", <<>>, 12)>>
    ELSE [x \in 1..(L1D_plp_HTI_num_ti_blocks + 1) |->
            In("        L1D_plp_HTI_num_fec_blocks[%lu]: %lu", <<x - 1>>, 12)]

PlpCoreLayer(r) ==
    LET a == Run(r, <<Var("      L1D_plp_type: %lu", 1, "L1D_plp_type")>>)
        b == Run(a, (IF a.loc.L1D_plp_type = 1
                     THEN <<In("      L1D_plp_num_subslices: %lu", <<>>, 14),
                            In("      L1D_plp_subslice_interval: %lu", <<>>, 24)>>
                     ELSE <<>>)
                    \o (IF a.loc.L1D_plp_TI_mode \in {1, 2} /\ a.loc.L1D_plp_mod = 0
                        THEN <<In("      L1D_plp_TI_extended_interleaving: %lu", <<>>, 1)>>
                        ELSE <<>>))
    IN  IF b.loc.L1D_plp_TI_mode = 1
        THEN Run(b, <<In("      L1D_plp_CTI_depth: %lu", <<>>, 3),
                      In("      L1D_plp_CTI_start_row: %lu", <<>>, 11)>>)
        ELSE IF b.loc.L1D_plp_TI_mode = 2
        THEN LET c == Run(b, <<
                        Var("      L1D_plp_HTI_inter_subframe: %lu", 1,
                            "L1D_plp_HTI_inter_subframe"),
                        Var("      L1D_plp_HTI_num_ti_blocks: %lu", 4,
                            "L1D_plp_HTI_num_ti_blocks"),
                        In("      L1D_plp_HTI_num_fec_blocks_max: %lu", <<>>, 12)>>)
                 d == Run(c, PlpHtiFecBlocks(c.loc.L1D_plp_HTI_inter_subframe,
                                             c.loc.L1D_plp_HTI_num_ti_blocks))
             IN  Run(d, <<In("      L1D_plp_HTI_cell_interleaver: %lu", <<>>, 1)>>)
        ELSE b

PlpLayer(r) ==
    IF r.loc.L1D_plp_layer = 0
    THEN PlpCoreLayer(r)
    ELSE Run(r, <<In("      L1D_plp_ldm_injection_level: %lu", <<>>, 5)>>)

PlpRecord(r, i_, j_) ==
    LET a == Run(r, <<
                Hdr("    PLP #%lu:", <<j_>>),
                In("      L1D_plp_id: %lu", <<>>, 6),
                In("      L1D_plp_lls_flag: %lu", <<>>, 1),
                Var("      L1D_plp_layer: %lu", 2, "L1D_plp_layer"),
                In("      L1D_plp_start: %lu", <<>>, 24),
                In("      L1D_plp_size: %lu", <<>>, 24),
                In("      L1D_plp_scrambler_type: %lu", <<>>, 2),
                VarEn("      L1D_plp_fec_type: %s", 4, "L1D_plp_fec_type",
                      L1D_plp_fec_type_map)>>)
        b == Run([a EXCEPT !.loc.L1D_plp_mod = 0], PlpModCod(a.loc.L1D_plp_fec_type))
        c == Run(b, <<Var("      L1D_plp_TI_mode: %lu", 2, "L1D_plp_TI_mode")>>)
        d == Run(c, PlpTIStart(c.loc.L1D_plp_TI_mode))
        e == IF d.loc.L1D_num_rf > 0
             THEN LET t == Run(d, <<Var("      L1D_plp_num_channel_bonded: %lu", 3,
                                        "L1D_plp_num_channel_bonded")>>)
                  IN  Run(t, PlpBondedRfIds(t.loc.L1D_plp_num_channel_bonded))
             ELSE d
        f == Run(e, PlpMimo(i_, e.loc))
    IN  PlpLayer(f)

Bsid(r) == Run(r, <<In("L1D_bsid: %lu", <<>>, 16)>>)

\* The branch taken when a subframe's mimo_mixed flag is set: its body in the
\* source is a comment, no statement.
MimoDetailFlags(r) == r

\* One turn of the second loop over the subframes.
MimoMixed(r, i_) ==
    LET a == IF i_ > 0
             THEN Run(r, <<VarAt("Subframe #%lu L1D_mimo_mixed: %lu", <<i_>>, 1,
                                 "L1D_mimo_mixed")>>)
             ELSE r
    IN  IF (i_ = 0 /\ a.loc.L1B_first_sub_mimo_mixed = 1)
           \/ (i_ > 0 /\ a.loc.L1D_mimo_mixed = 1)
        THEN MimoDetailFlags(a)
        ELSE a

Crc(r) == Run(r, <<InWide("L1D_crc: 0x%08lX", 32, 4)>>)

\* The raw-bits trailer: the while loop over the bits left in the buffer,
\* taken one flush of bit_buf at a time: after 64 bits, or at the end of the
\* buffer with the bits gathered so far.
RECURSIVE TrailerLoop(_)
TrailerLoop(r) ==
    IF r.off < len * 8
    THEN LET bit_idx == IF len * 8 - r.off < 64 THEN len * 8 - r.off ELSE 64
             bit_buf == [y \in 1..bit_idx |->
                            IF BitAt(data, r.off + y - 1) = 1 THEN "1" ELSE "0"]
         IN  TrailerLoop(add_line([r EXCEPT !.off = @ + bit_idx, !.due = @ + bit_idx],
                                  "%s", <<bit_buf>>))
    ELSE r

\* A decoder that left the unparsed bits out.
Trailer_silent(r) == Run(r, <<Hdr(" ", <<>>)>>)

Trailer(r) ==
    LET a == IF r.off < len * 8
             THEN TrailerLoop(Run(r, <<Hdr(" ", <<>>),
                                       Hdr("--- Remaining Unparsed Bits ---", <<>>)>>))
             ELSE r
    IN  Run(a, <<Hdr(" ", <<>>)>>)

(***************************************************************************)
(* The input buffers.  A buffer is the byte image of an L1-Basic block and *)
(* an L1-Detail block laid out in the bit order parse_l1_data decodes,     *)
(* followed by padding to the byte boundary and the 32-bit L1D_crc; it is  *)
(* then handed over whole, cut short, or with bytes appended.              *)
(***************************************************************************)
MaxSubframes == 1

MaxPlps == 1

MaxPadBytes == 1

MaxExtraBytes == 9

NearCap == 40

Fill(w) == Pow2(w) \div 3

FieldBits(f) == [x \in 1..f[2] |-> (f[1] \div Pow2(f[2] - x)) % 2]

\* The bits of the fields lo..hi of fs, in order.
RECURSIVE FlattenRange(_, _, _)
FlattenRange(fs, lo, hi) ==
    IF lo > hi THEN <<>>
    ELSE IF lo = hi THEN FieldBits(fs[lo])
    ELSE FlattenRange(fs, lo, (lo + hi) \div 2) \o FlattenRange(fs, (lo + hi) \div 2 + 1, hi)

Flatten(fs) == FlattenRange(fs, 1, Len(fs))

PackBytes(bits) ==
    LET B(x) == IF x <= Len(bits) THEN bits[x] ELSE 0
    IN  [b \in 1..((Len(bits) + 7) \div 8) |->
            128 * B(8 * b - 7) + 64 * B(8 * b - 6) + 32 * B(8 * b - 5) + 16 * B(8 * b - 4)
            + 8 * B(8 * b - 3) + 4 * B(8 * b - 2) + 2 * B(8 * b - 1) + B(8 * b)]

\* The gating fields of L1-Basic and of the L1-Detail header.
Headers == <<
    [tif |-> 0, flm |-> 0, papr |-> 0, fec |-> 0, num_rf |-> 0, mimo |-> 0, sbs |-> 0, mixed |-> 0],
    [tif |-> 3, flm |-> 1, papr |-> 3, fec |-> 7, num_rf |-> 1, mimo |-> 1, sbs |-> 1, mixed |-> 1],
    [tif |-> 1, flm |-> 0, papr |-> 1, fec |-> 3, num_rf |-> 0, mimo |-> 0, sbs |-> 0, mixed |-> 1],
    [tif |-> 2, flm |-> 1, papr |-> 2, fec |-> 5, num_rf |-> 2, mimo |-> 0, sbs |-> 1, mixed |-> 0]>>

\* The gating fields of a PLP record.
Profiles == <<
    [layer |-> 0, fec |-> 0, mod |-> 0, cod |-> 5, ti |-> 0, type |-> 0, inter |-> 0, nti |-> 0, bonded |-> 0],
    [layer |-> 0, fec |-> 1, mod |-> 3, cod |-> 11, ti |-> 1, type |-> 1, inter |-> 0, nti |-> 0, bonded |-> 2],
    [layer |-> 0, fec |-> 2, mod |-> 1, cod |-> 2, ti |-> 2, type |-> 0, inter |-> 0, nti |-> 2, bonded |-> 0],
    [layer |-> 0, fec |-> 5, mod |-> 0, cod |-> 0, ti |-> 2, type |-> 1, inter |-> 1, nti |-> 2, bonded |-> 1],
    [layer |-> 1, fec |-> 7, mod |-> 0, cod |-> 0, ti |-> 3, type |-> 0, inter |-> 0, nti |-> 0, bonded |-> 0],
    [layer |-> 0, fec |-> 4, mod |-> 8, cod |-> 13, ti |-> 3, type |-> 0, inter |-> 0, nti |-> 0, bonded |-> 0],
    [layer |-> 2, fec |-> 3, mod |-> 6, cod |-> 12, ti |-> 2, type |-> 0, inter |-> 0, nti |-> 0, bonded |-> 0],
    [layer |-> 0, fec |-> 9, mod |-> 0, cod |-> 0, ti |-> 1, type |-> 0, inter |-> 0, nti |-> 0, bonded |-> 0]>>

EncL1Basic(h, nsub, size) == <<
    <<2, 3>>, <<0, 1>>, <<1, 1>>, <<h.tif, 2>>, <<0, 1>>, <<h.papr, 2>>, <<h.flm, 1>>,
    <<Fill(23), 23>>,
    <<nsub, 8>>, <<3, 3>>, <<0, 3>>, <<1, 2>>, <<size, 13>>, <<h.fec, 3>>, <<2, 2>>,
    <<Fill(19), 19>>,
    <<h.mimo, 1>>, <<0, 2>>, <<h.papr, 2>>, <<2, 3>>, <<5, 4>>, <<Fill(11), 11>>, <<9, 5>>,
    <<h.fec, 3>>, <<h.sbs, 1>>, <<0, 1>>, <<h.mixed, 1>>,
    <<Fill(15), 15>>, <<Fill(16), 16>>, <<Fill(16), 16>>,
    <<42330, 16>>, <<38640, 16>> >>

EncTime(tif) ==
    (IF tif # 0 THEN <<<<Fill(16), 16>>, <<Fill(16), 16>>, <<500, 10>>>> ELSE <<>>)
    \o (IF tif >= 2 THEN <<<<250, 10>>>> ELSE <<>>)
    \o (IF tif >= 3 THEN <<<<125, 10>>>> ELSE <<>>)

EncL1DetailHeader(h) ==
    <<<<1, 4>>, <<h.num_rf, 3>>>>
    \o [x \in 1..(2 * h.num_rf) |-> IF x % 2 = 1 THEN <<4660 + x, 16>> ELSE <<0, 3>>]
    \o EncTime(h.tif)

EncSubframeHeader(h, nsub, nplp, i_) ==
    (IF i_ > 0
     THEN <<<<h.mimo, 1>>, <<1, 2>>, <<h.papr, 2>>, <<1, 3>>, <<15, 4>>, <<Fill(11), 11>>,
            <<3, 5>>, <<h.fec, 3>>, <<0, 1>>, <<h.sbs, 1>>>>
     ELSE <<>>)
    \o (IF nsub > 0 THEN <<<<1, 1>>>> ELSE <<>>)
    \o <<<<1, 1>>>>
    \o (IF h.sbs = 1 THEN <<<<Fill(13), 13>>>> ELSE <<>>)
    \o <<<<nplp, 6>>>>

EncPlp(h, p, id) ==
    <<<<id, 6>>, <<1, 1>>, <<p.layer, 2>>, <<Fill(24), 24>>, <<Fill(23), 24>>, <<0, 2>>,
      <<p.fec, 4>>>>
    \o (IF p.fec <= 5 THEN <<<<p.mod, 4>>, <<p.cod, 4>>>> ELSE <<>>)
    \o <<<<p.ti, 2>>>>
    \o (IF p.ti = 0 THEN <<<<Fill(15), 15>>>>
        ELSE IF p.ti = 1 THEN <<<<Fill(22), 22>>>> ELSE <<>>)
    \o (IF h.num_rf > 0
        THEN <<<<p.bonded, 3>>>>
             \o (IF p.bonded > 0
                 THEN <<<<1, 2>>>> \o [x \in 1..p.bonded |-> <<x, 3>>]
                 ELSE <<>>)
        ELSE <<>>)
    \o (IF h.mimo = 1 THEN <<<<1, 1>>, <<0, 1>>, <<1, 1>>>> ELSE <<>>)
    \o (IF p.layer = 0
        THEN <<<<p.type, 1>>>>
             \o (IF p.type = 1 THEN <<<<Fill(14), 14>>, <<Fill(24), 24>>>> ELSE <<>>)
             \o (IF p.ti \in {1, 2} /\ p.fec <= 5 /\ p.mod = 0 THEN <<<<1, 1>>>> ELSE <<>>)
             \o (IF p.ti \in {1, 2} /\ p.fec > 5 THEN <<<<1, 1>>>> ELSE <<>>)
             \o (IF p.ti = 1 THEN <<<<4, 3>>, <<Fill(11), 11>>>>
                 ELSE IF p.ti = 2
                 THEN <<<<p.inter, 1>>, <<p.nti, 4>>, <<Fill(12), 12>>>>
                      \o (IF p.inter = 0 THEN <<<<Fill(12), 12>>>>
                          ELSE [x \in 1..(p.nti + 1) |-> <<100 + x, 12>>])
                      \o <<<<1, 1>>>>
                 ELSE <<>>)
        ELSE <<<<Fill(5), 5>>>>)

ProfileOf(p0, nplp, i_, j_) ==
    Profiles[((p0 - 1 + i_ * (nplp + 1) + j_) % Len(Profiles)) + 1]

RECURSIVE EncPlps(_, _, _, _, _)
EncPlps(h, p0, nplp, i_, j_) ==
    IF j_ > nplp THEN <<>>
    ELSE EncPlp(h, ProfileOf(p0, nplp, i_, j_), j_) \o EncPlps(h, p0, nplp, i_, j_ + 1)

RECURSIVE EncSubframes(_, _, _, _, _)
EncSubframes(h, p0, nsub, nplp, i_) ==
    IF i_ > nsub THEN <<>>
    ELSE EncSubframeHeader(h, nsub, nplp, i_) \o EncPlps(h, p0, nplp, i_, 0)
         \o EncSubframes(h, p0, nsub, nplp, i_ + 1)

EncL1Detail(h, p0, nsub, nplp) ==
    EncL1DetailHeader(h) \o EncSubframes(h, p0, nsub, nplp, 0)
    \o <<<<4097, 16>>>> \o [x \in 1..nsub |-> <<h.mixed, 1>>]

\* The whole image: L1-Basic, L1-Detail, padding (ones), L1D_crc.
Image(h, p0, nsub, nplp, pad) ==
    LET detail == Flatten(EncL1Detail(h, p0, nsub, nplp))
        align  == (8 - (Len(detail) % 8)) % 8
        fill   == [x \in 1..(align + 8 * pad) |-> 1]
        crc    == Flatten(<<<<51966, 16>>, <<47806, 16>>>>)
        size   == (Len(detail) + Len(fill) + 32) \div 8
    IN  PackBytes(Flatten(EncL1Basic(h, nsub, size)) \o detail \o fill \o crc)

Extra(n) == [x \in 1..n |-> IF x % 2 = 1 THEN 165 ELSE 90]

\* The buffers a full image gives when it is cut short or has bytes appended.
Variants(B) ==
    {SubSeq(B, 1, c) : c \in {0, 4, 25, Len(B) - 1}}
    \cup {B \o Extra(n) : n \in {1, MaxExtraBytes}}

\* Every well-formed image within the bounds.
Images ==
    {Image(Headers[h], p0, nsub, nplp, pad) :
        h \in 1..Len(Headers), p0 \in 1..Len(Profiles),
        nsub \in 0..MaxSubframes, nplp \in 0..MaxPlps, pad \in 0..MaxPadBytes}

\* The images that are also given cut short and with bytes appended.
Damaged ==
    UNION {Variants(Image(Headers[h], p0, MaxSubframes, 0, 0)) :
              h \in 1..Len(Headers), p0 \in {1, 4}}

\* line_count when show_plp_details_screen calls parse_l1_data: at least the
\* leading blank line, at most the cap.
EntryLineCounts == {1, MAX_DISPLAY_LINES - NearCap}

(***************************************************************************)
(* The state machine.                                                      *)
(***************************************************************************)
Locals == [L1B_num_subframes |-> L1B_num_subframes,
           L1B_time_info_flag |-> L1B_time_info_flag,
           L1B_first_sub_sbs_first |-> L1B_first_sub_sbs_first,
           L1B_first_sub_sbs_last |-> L1B_first_sub_sbs_last,
           L1B_first_sub_mimo |-> L1B_first_sub_mimo,
           L1B_first_sub_mimo_mixed |-> L1B_first_sub_mimo_mixed,
           L1D_mimo_mixed |-> L1D_mimo_mixed,
           L1D_num_rf |-> L1D_num_rf,
           L1D_mimo |-> L1D_mimo,
           L1D_num_plp |-> L1D_num_plp,
           papr |-> 0, frame_length_mode |-> 0, l1d_fec |-> 0, l1d_parity |-> 0,
           fft_size |-> 0, gi |-> 0, sp_boost |-> 0,
           L1D_sbs_first |-> 0, L1D_sbs_last |-> 0,
           l1d_fft |-> 0, l1d_gi |-> 0, l1d_sp_boost |-> 0,
           L1D_plp_layer |-> 0, L1D_plp_fec_type |-> 0, L1D_plp_mod |-> 0,
           L1D_plp_cod |-> 0, L1D_plp_TI_mode |-> 0, L1D_plp_num_channel_bonded |-> 0,
           L1D_plp_type |-> 0, L1D_plp_HTI_inter_subframe |-> 0,
           L1D_plp_HTI_num_ti_blocks |-> 0]

\* The reader at the start of a block.
Reader == [off |-> bit_offset, n |-> line_count, lines |-> <<>>, rd |-> <<>>,
           hi |-> max_byte_read, loc |-> Locals, note |-> [detail_size |-> detail_size],
           due |-> grammar_offset, stray |-> FALSE]

\* The state after a block that left the reader r.
Commit(r) ==
    /\ bit_offset' = r.off
    /\ line_count' = r.n
    /\ display_lines' = display_lines \o r.lines
    /\ reads' = r.rd
    /\ max_byte_read' = r.hi
    /\ detail_size' = r.note.detail_size
    /\ grammar_offset' = r.due
    /\ L1B_num_subframes' = r.loc.L1B_num_subframes
    /\ L1B_time_info_flag' = r.loc.L1B_time_info_flag
    /\ L1B_first_sub_sbs_first' = r.loc.L1B_first_sub_sbs_first
    /\ L1B_first_sub_sbs_last' = r.loc.L1B_first_sub_sbs_last
    /\ L1B_first_sub_mimo' = r.loc.L1B_first_sub_mimo
    /\ L1B_first_sub_mimo_mixed' = r.loc.L1B_first_sub_mimo_mixed
    /\ L1D_mimo_mixed' = r.loc.L1D_mimo_mixed
    /\ L1D_num_rf' = r.loc.L1D_num_rf
    /\ L1D_mimo' = r.loc.L1D_mimo
    /\ L1D_num_plp' = r.loc.L1D_num_plp
    /\ UNCHANGED <<data, len, max_lines, call>>

\* The state on entry to parse_l1_data(data_, Len(data_), display_lines,
\* &line_count, MAX_DISPLAY_LINES).
Entry(data_, line_count_) ==
    /\ data = data_
    /\ len = Len(data_)
    /\ max_lines = MAX_DISPLAY_LINES
    /\ line_count = line_count_
    /\ pc = "l1b"
    /\ bit_offset = 0
    /\ display_lines = <<>>
    /\ L1B_num_subframes = 0
    /\ L1B_time_info_flag = 0
    /\ L1B_first_sub_sbs_first = 0
    /\ L1B_first_sub_sbs_last = 0
    /\ L1B_first_sub_mimo = 0
    /\ L1B_first_sub_mimo_mixed = 0
    /\ L1D_mimo_mixed = 0
    /\ L1D_num_rf = 0
    /\ L1D_mimo = 0
    /\ L1D_num_plp = 0
    /\ i = 0
    /\ j = 0
    /\ reads = <<>>
    /\ max_byte_read = -1
    /\ records = <<>>
    /\ detail_size = -1
    /\ detail_at = -1
    /\ crc_at = -1
    /\ trailer_at = -1
    /\ grammar_offset = 0
    /\ call = [fn |-> "parse_l1_data"]

Init ==
    \E data_ \in Images \cup Damaged, line_count_ \in EntryLineCounts :
        Entry(data_, line_count_)

\* for (i = 0; i <= L1B_num_subframes; i++)
SubframeLoop(i_, L1B_num_subframes_) == i_ <= L1B_num_subframes_

\* A PLP loop that stopped one record short.
PlpLoop_exclusive(j_, L1D_num_plp_) == j_ < L1D_num_plp_

\* for (j = 0; j <= L1D_num_plp; j++)
PlpLoop(j_, L1D_num_plp_) == j_ <= L1D_num_plp_

\* The reader the block at pc would leave.
NextBlock ==
    CASE pc = "l1b" -> L1Basic(Reader)
      [] pc = "l1d" -> L1DetailHeader(Reader)
      [] pc = "subframe" ->
            IF SubframeLoop(i, L1B_num_subframes)
            THEN SubframeHeader(Reader, i) ELSE Bsid(Reader)
      [] pc = "plp" -> PlpRecord(Reader, i, j)
      [] pc = "mimo" ->
            IF SubframeLoop(i, L1B_num_subframes)
            THEN MimoMixed(Reader, i) ELSE Crc(Reader)
      [] OTHER -> Reader

\* A block that read behind the allocation, memory that is not the
\* program's, leaves the decode astray if the process goes on: the state
\* keeps what the block did up to that read, the read included, and
\* pc = "stray" stands for everything parse_l1_data does from there, which
\* the bytes it finds decide: the fields it reads, the lines it adds up to
\* max_lines, the turns of its loops.
Astray(r) ==
    /\ r.stray
    /\ pc' = "stray"
    /\ UNCHANGED <<i, j, records, detail_at, crc_at, trailer_at>>

ParseL1Basic ==
    /\ pc = "l1b"
    /\ LET r == L1Basic(Reader)
       IN  /\ Commit(r)
           /\ \/ Astray(r)
              \/ /\ ~r.stray
                 /\ detail_at' = r.off
                 /\ pc' = "l1d"
                 /\ UNCHANGED <<i, j, records, crc_at, trailer_at>>

ParseL1DetailHeader ==
    /\ pc = "l1d"
    /\ LET r == L1DetailHeader(Reader)
       IN  /\ Commit(r)
           /\ \/ Astray(r)
              \/ /\ ~r.stray
                 /\ pc' = "subframe"
                 /\ i' = 0
                 /\ UNCHANGED <<j, records, detail_at, crc_at, trailer_at>>

ParseSubframeHeader ==
    /\ pc = "subframe"
    /\ SubframeLoop(i, L1B_num_subframes)
    /\ LET r == SubframeHeader(Reader, i)
       IN  /\ Commit(r)
           /\ \/ Astray(r)
              \/ /\ ~r.stray
                 /\ records' = Append(records, [sub |-> i, num_plp |-> r.loc.L1D_num_plp,
                                                plps |-> <<>>])
                 /\ pc' = "plp"
                 /\ j' = 0
                 /\ UNCHANGED <<i, detail_at, crc_at, trailer_at>>

ParsePlp ==
    /\ pc = "plp"
    /\ PlpLoop(j, L1D_num_plp)
    /\ LET r == PlpRecord(Reader, i, j)
       IN  /\ Commit(r)
           /\ \/ Astray(r)
              \/ /\ ~r.stray
                 /\ records' = [records EXCEPT ![Len(records)].plps = Append(@, j)]
                 /\ j' = j + 1
                 /\ IF PlpLoop(j + 1, L1D_num_plp)
                    THEN pc' = "plp" /\ i' = i
                    ELSE pc' = "subframe" /\ i' = i + 1
                 /\ UNCHANGED <<detail_at, crc_at, trailer_at>>

ParseBsid ==
    /\ pc = "subframe"
    /\ ~SubframeLoop(i, L1B_num_subframes)
    /\ LET r == Bsid(Reader)
       IN  /\ Commit(r)
           /\ \/ Astray(r)
              \/ /\ ~r.stray
                 /\ pc' = "mimo"
                 /\ i' = 0
                 /\ UNCHANGED <<j, records, detail_at, crc_at, trailer_at>>

ParseMimoMixed ==
    /\ pc = "mimo"
    /\ SubframeLoop(i, L1B_num_subframes)
    /\ LET r == MimoMixed(Reader, i)
       IN  /\ Commit(r)
           /\ \/ Astray(r)
              \/ /\ ~r.stray
                 /\ i' = i + 1
                 /\ UNCHANGED <<pc, j, records, detail_at, crc_at, trailer_at>>

ParseCrc ==
    /\ pc = "mimo"
    /\ ~SubframeLoop(i, L1B_num_subframes)
    /\ LET r == Crc(Reader)
       IN  /\ Commit(r)
           /\ \/ Astray(r)
              \/ /\ ~r.stray
                 /\ crc_at' = IF r.off = bit_offset THEN -1 ELSE bit_offset
                 /\ pc' = "trailer"
                 /\ UNCHANGED <<i, j, records, detail_at, trailer_at>>

ParseTrailer ==
    /\ pc = "trailer"
    /\ Commit(Trailer(Reader))
    /\ trailer_at' = bit_offset
    /\ pc' = "done"
    /\ UNCHANGED <<i, j, records, detail_at, crc_at>>

\* A read behind the allocation ends the process instead.
SegFault ==
    /\ pc \in {"l1b", "l1d", "subframe", "plp", "mimo"}
    /\ NextBlock.stray
    /\ pc' = "crashed"
    /\ UNCHANGED <<data, len, max_lines, bit_offset, display_lines, line_count,
                   L1B_num_subframes, L1B_time_info_flag, L1B_first_sub_sbs_first,
                   L1B_first_sub_sbs_last, L1B_first_sub_mimo, L1B_first_sub_mimo_mixed,
                   L1D_mimo_mixed, L1D_num_rf, L1D_mimo, L1D_num_plp, i, j,
                   reads, max_byte_read, records, detail_size, detail_at, crc_at, trailer_at,
                   grammar_offset, call>>

Next ==
    \/ ParseL1Basic
    \/ ParseL1DetailHeader
    \/ ParseSubframeHeader
    \/ ParsePlp
    \/ ParseBsid
    \/ ParseMimoMixed
    \/ ParseCrc
    \/ ParseTrailer
    \/ SegFault

Spec == Init /\ [][Next]_vars

(***************************************************************************)
(* Properties.  They read the state and its history variables only.        *)
(***************************************************************************)
\* The reads of the last block whose line has the format fmt.
Fields(fmt) == {x \in 1..Len(reads) : reads[x].f = fmt}

ValueOf(fmt) == reads[CHOOSE x \in Fields(fmt) : TRUE].v

\* The last block decoded a PLP record to its end.
PlpDecoded == pc # "stray" /\ Fields("      L1D_plp_layer: %lu") # {}

\* No add_line has been refused so far.
BelowCap == line_count < max_lines

Positions(l) == {x \in 1..Len(display_lines) : display_lines[x] = l}

\* Lines a, b and c are in display_lines in this order, a matched by format.
InOrder(a, b, c) ==
    LET A == {x \in 1..Len(display_lines) : display_lines[x].fmt = a}
    IN  \E x \in A, y \in Positions(b), z \in Positions(c) : x < y /\ y < z

\* C1: the bit cursor never exceeds len*8 and get_bits never reads a byte at
\* an index >= len, whatever the buffer.
C1_CursorWithinBuffer ==
    /\ bit_offset <= len * 8
    /\ max_byte_read < len

\* C2: on a buffer with fewer bits than the grammar requires no field value
\* is taken from bits beyond the end of the buffer, and the lines of the
\* finished decode end in a truncation marker (or there are none).
C2_TruncationMarked ==
    /\ \A x \in 1..Len(reads) : reads[x].at + reads[x].w <= len * 8
    /\ (pc = "done" /\ max_byte_read >= len /\ display_lines # <<>>)
          => display_lines[Len(display_lines)].fmt = "--- Truncated ---"

\* The PLP records of rec are 0, 1, ... in order, none beyond its L1D_num_plp.
PlpsInOrder(rec) ==
    /\ Len(rec.plps) <= rec.num_plp + 1
    /\ \A y \in 1..Len(rec.plps) : rec.plps[y] = y - 1

\* C3: the subframe records are decoded in index order, L1B_num_subframes + 1
\* of them once the subframe loop has ended; each finished subframe holds
\* exactly L1D_num_plp + 1 PLP records in order, L1D_num_plp being the 6-bit
\* count read in that subframe's header.
C3_RecordCounts ==
    /\ Len(records) <= L1B_num_subframes + 1
    /\ \A x \in 1..Len(records) :
          /\ records[x].sub = x - 1
          /\ PlpsInOrder(records[x])
          /\ (x < Len(records) \/ pc \in {"subframe", "mimo", "trailer", "done"})
                => Len(records[x].plps) = records[x].num_plp + 1
    /\ pc \in {"mimo", "trailer", "done"} => Len(records) = L1B_num_subframes + 1
    /\ (pc = "plp" /\ j = 0)
          => /\ Cardinality(Fields("  L1D_num_plp: %lu")) = 1
             /\ reads[CHOOSE x \in Fields("  L1D_num_plp: %lu") : TRUE].w = 6
             /\ records[Len(records)].num_plp = ValueOf("  L1D_num_plp: %lu")

C3_TwoSubframesTwoPlps ==
    /\ pc = "done"
    /\ L1B_num_subframes = 1
    /\ Len(records) = 2
    /\ records[2].num_plp = 1
    /\ records[2].plps = <<0, 1>>

\* C4: L1D_crc is read from the last 32 bits of the L1-Detail block, whose
\* length is L1B_L1_Detail_size_bytes, padding or not.
C4_CrcIsLastWord ==
    (crc_at # -1 /\ detail_size # -1 /\ detail_at + 8 * detail_size <= len * 8)
        => crc_at = detail_at + 8 * detail_size - 32

\* The last block decoded a core-layer PLP in hybrid time-interleaving mode.
Hybrid ==
    /\ PlpDecoded
    /\ ValueOf("      L1D_plp_layer: %lu") = 0
    /\ ValueOf("      L1D_plp_TI_mode: %lu") = 2

HtiList == Fields("        L1D_plp_HTI_num_fec_blocks[%lu]: %lu")

HtiSingle == Fields("      L1D_plp_HTI_num_fec_blocks: %lu")

CoreLayerFields ==
    {"      L1D_plp_type: %lu", "      L1D_plp_num_subslices: %lu",
     "      L1D_plp_subslice_interval: %lu", "      L1D_plp_TI_extended_interleaving: %lu",
     "      L1D_plp_CTI_depth: %lu", "      L1D_plp_CTI_start_row: %lu",
     "      L1D_plp_HTI_inter_subframe: %lu", "      L1D_plp_HTI_num_ti_blocks: %lu",
     "      L1D_plp_HTI_num_fec_blocks_max: %lu", "      L1D_plp_HTI_num_fec_blocks: %lu",
     "        L1D_plp_HTI_num_fec_blocks[%lu]: %lu", "      L1D_plp_HTI_cell_interleaver: %lu"}

\* C5: a core-layer PLP in hybrid time-interleaving mode reads the list of
\* L1D_plp_HTI_num_ti_blocks + 1 twelve-bit L1D_plp_HTI_num_fec_blocks
\* entries exactly when L1D_plp_HTI_inter_subframe is 0; an enhanced-layer
\* PLP reads the single 5-bit L1D_plp_ldm_injection_level and none of the
\* core-layer fields.
C5_HtiListWhenInterSubframeOff ==
    /\ Hybrid =>
          /\ \A x \in HtiList : reads[x].w = 12
          /\ (Cardinality(HtiList) = ValueOf("      L1D_plp_HTI_num_ti_blocks: %lu") + 1)
                <=> (ValueOf("      L1D_plp_HTI_inter_subframe: %lu") = 0)
    /\ (PlpDecoded /\ ValueOf("      L1D_plp_layer: %lu") # 0) =>
          /\ \A x \in 1..Len(reads) : reads[x].f \notin CoreLayerFields
          /\ Cardinality(Fields("      L1D_plp_ldm_injection_level: %lu")) = 1
          /\ \A x \in Fields("      L1D_plp_ldm_injection_level: %lu") : reads[x].w = 5

\* C6: in the second pass, a subframe whose mimo_mixed flag is set
\* (L1B_first_sub_mimo_mixed for subframe 0, L1D_mimo_mixed otherwise) has
\* its per-PLP MIMO detail flags read after the flag.
C6_MimoDetailFlagsRead ==
    (/\ pc = "mimo"
     /\ i >= 1
     /\ \/ i = 1 /\ L1B_first_sub_mimo_mixed = 1
        \/ i > 1 /\ L1D_mimo_mixed = 1)
        => \E x \in 1..Len(reads) : reads[x].f # "Subframe #%lu L1D_mimo_mixed: %lu"

\* C7: in every PLP record L1D_plp_TI_mode 0 reads the 15-bit
\* L1D_plp_fec_block_start, mode 1 the 22-bit L1D_plp_CTI_fec_block_start,
\* any other mode neither, and never both.
C7_TiModeSelectsStart ==
    PlpDecoded =>
        LET mode == ValueOf("      L1D_plp_TI_mode: %lu")
            fbs  == Fields("      L1D_plp_fec_block_start: %lu")
            cti  == Fields("      L1D_plp_CTI_fec_block_start: %lu")
        IN  /\ mode = 0 => Cardinality(fbs) = 1 /\ cti = {}
            /\ mode = 1 => Cardinality(cti) = 1 /\ fbs = {}
            /\ mode \notin {0, 1} => fbs = {} /\ cti = {}
            /\ \A x \in fbs : reads[x].w = 15
            /\ \A x \in cti : reads[x].w = 22

\* C8 (as amended): below the line cap, once the first subframe header is
\* decoded, the lines hold in order L1B_version, L1B_num_subframes and
\* L1D_num_plp, the two counts as read, without a bias: 0 and 0 for a
\* single-subframe, single-PLP input.
C8_CountsShownRaw ==
    (Len(records) >= 1 /\ BelowCap)
        => InOrder("L1B_version: %lu",
                   Line("L1B_num_subframes: %lu", <<L1B_num_subframes>>),
                   Line("  L1D_num_plp: %lu", <<records[1].num_plp>>))

C8_SingleSubframeSinglePlp ==
    /\ pc = "done"
    /\ BelowCap
    /\ L1B_num_subframes = 0
    /\ Len(records) = 1
    /\ records[1].num_plp = 0
    /\ records[1].plps = <<0>>
    /\ InOrder("L1B_version: %lu", Line("L1B_num_subframes: %lu", <<0>>),
               Line("  L1D_num_plp: %lu", <<0>>))

\* C8 as the specification words it: for raw counts 0 and 0 the lines are
\* `L1B_num_subframes: 1` and `L1D_num_plp: 1`.
C8_CountsShownBiased ==
    (/\ pc = "done"
     /\ BelowCap
     /\ L1B_num_subframes = 0
     /\ Len(records) = 1
     /\ records[1].num_plp = 0)
        => InOrder("L1B_version: %lu", Line("L1B_num_subframes: %lu", <<1>>),
                   Line("  L1D_num_plp: %lu", <<1>>))

\* How a value without a name is to be rendered.
ReservedNames(v) == {"Reserved", "Unknown(" \o ToString(v) \o ")"}

\* C9: an L1D_plp_mod above the last defined modulation (5, 4096-QAM) and an
\* L1D_plp_cod above the last defined code rate (11, 13/15) are rendered as
\* "Reserved" or "Unknown(<n>)".
C9_UnnamedShownReserved ==
    /\ \A x \in Fields("      L1D_plp_mod: %s") :
          reads[x].v > 5 => reads[x].shown \in ReservedNames(reads[x].v)
    /\ \A x \in Fields("      L1D_plp_cod: %s") :
          reads[x].v > 11 => reads[x].shown \in ReservedNames(reads[x].v)

\* The bits the trailer had left to show, and the lines they fill.
Leftover == len * 8 - trailer_at

TrailerLines == (Leftover + 63) \div 64

\* Line c of the trailer: 64 bit characters, the last line the rest.
TrailerLine(c) ==
    Line("%s", <<[y \in 1..(IF c < TrailerLines THEN 64 ELSE Leftover - 64 * (c - 1)) |->
                    IF BitAt(data, trailer_at + 64 * (c - 1) + y - 1) = 1 THEN "1" ELSE "0"]>>)

\* The lines end in the trailer of the leftover bits and a blank line.
TrailerShown ==
    LET L == Len(display_lines)
    IN  /\ L >= TrailerLines + 3
        /\ display_lines[L] = Line(" ", <<>>)
        /\ \A c \in 1..TrailerLines : display_lines[L - 1 - TrailerLines + c] = TrailerLine(c)
        /\ display_lines[L - 1 - TrailerLines] = Line("--- Remaining Unparsed Bits ---", <<>>)
        /\ display_lines[L - 2 - TrailerLines] = Line(" ", <<>>)
        /\ bit_offset = len * 8

NoTrailer ==
    \A x \in 1..Len(display_lines) :
        display_lines[x].fmt \notin {"--- Remaining Unparsed Bits ---", "%s"}

\* C10 (as amended): when the decode ends with the line count below the cap,
\* the bits left after L1D_crc are all shown, in buffer order, in lines of 64
\* bit characters, the last line alone being shorter; whatever the line
\* count, no trailer is shown when no bits are left.
C10_TrailerBelowCap ==
    pc = "done" =>
        /\ (Leftover > 0 /\ BelowCap) => TrailerShown
        /\ Leftover <= 0 => NoTrailer

C10_TwoTrailerLines ==
    /\ pc = "done"
    /\ BelowCap
    /\ Leftover > 64
    /\ Leftover % 64 # 0
    /\ TrailerShown

\* C10 as the specification words it: bits left after L1D_crc are all shown,
\* whatever the line count.
C10_TrailerAlways ==
    pc = "done" =>
        /\ Leftover > 0 => TrailerShown
        /\ Leftover <= 0 => NoTrailer

(***************************************************************************)
(* The helper functions on their own.  A helper is exercised by a caller   *)
(* that draws its arguments from a bounded set and keeps what the helper   *)
(* returned in call; the decoder is at rest meanwhile.                     *)
(***************************************************************************)
l1vars == <<data, len, max_lines, pc, bit_offset, display_lines, line_count,
            L1B_num_subframes, L1B_time_info_flag, L1B_first_sub_sbs_first,
            L1B_first_sub_sbs_last, L1B_first_sub_mimo, L1B_first_sub_mimo_mixed,
            L1D_mimo_mixed, L1D_num_rf, L1D_mimo, L1D_num_plp, i, j,
            reads, max_byte_read, records, detail_size, detail_at, crc_at, trailer_at,
            grammar_offset>>

AtRest ==
    /\ data = <<>>
    /\ len = 0
    /\ max_lines = MAX_DISPLAY_LINES
    /\ line_count = 0
    /\ pc = "rest"
    /\ bit_offset = 0
    /\ display_lines = <<>>
    /\ L1B_num_subframes = 0
    /\ L1B_time_info_flag = 0
    /\ L1B_first_sub_sbs_first = 0
    /\ L1B_first_sub_sbs_last = 0
    /\ L1B_first_sub_mimo = 0
    /\ L1B_first_sub_mimo_mixed = 0
    /\ L1D_mimo_mixed = 0
    /\ L1D_num_rf = 0
    /\ L1D_mimo = 0
    /\ L1D_num_plp = 0
    /\ i = 0
    /\ j = 0
    /\ reads = <<>>
    /\ max_byte_read = -1
    /\ records = <<>>
    /\ detail_size = -1
    /\ detail_at = -1
    /\ crc_at = -1
    /\ trailer_at = -1
    /\ grammar_offset = 0

(***************************************************************************)
(* get_bits on its own: a caller reads a list of fields one after the      *)
(* other, then rewinds its cursor and reads the same span in one call.     *)
(***************************************************************************)
\* The largest bit offset a caller starts from.
MaxStart == 7

\* Buffers long enough for 32 bits from every start offset.
Buffers ==
    {[k \in 1..((MaxStart + 32 + 7) \div 8) |-> (seed + (k - 1) * 59) % 256] :
        seed \in {128, 165, 255, 1}}

\* The field widths a caller asks for: every pair of widths up to 16 bits,
\* and eight single bits.
Plans == {<<n, m>> : n \in 1..16, m \in 1..16} \cup {[k \in 1..8 |-> 1]}

\* The widths of a plan, summed.
RECURSIVE SpanOf(_)
SpanOf(widths) == IF widths = <<>> THEN 0 ELSE Head(widths) + SpanOf(Tail(widths))

\* One call of get_bits at the caller's cursor: where it read, how many bits,
\* the value returned and the cursor the loop left.  A 32-bit value is kept
\* as its two 16-bit halves.
GetBitsCall(buffer, bit_offset_, num_bits) ==
    LET g == get_bits(buffer, bit_offset_, num_bits)
    IN  [at |-> bit_offset_, num_bits |-> num_bits,
         v |-> IF num_bits <= 31 THEN ULong(g.result) ELSE ULongDigits(g.result, num_bits, 16),
         end |-> g.bit_offset]

InitGetBits ==
    /\ AtRest
    /\ \E buffer \in Buffers, start \in 0..MaxStart, widths \in Plans :
            call = [fn |-> "get_bits", buffer |-> buffer, start |-> start,
                    widths |-> widths, bit_offset |-> start, out |-> <<>>, whole |-> <<>>]

\* The next field of the list is read at the cursor.
GetBitsField ==
    /\ call.fn = "get_bits"
    /\ Len(call.out) < Len(call.widths)
    /\ LET c == GetBitsCall(call.buffer, call.bit_offset, call.widths[Len(call.out) + 1])
       IN  call' = [call EXCEPT !.out = Append(@, c), !.bit_offset = c.end]
    /\ UNCHANGED l1vars

\* The caller rewinds to the start and reads as many bits as the fields had
\* together in one call.
GetBitsSpan ==
    /\ call.fn = "get_bits"
    /\ Len(call.out) = Len(call.widths)
    /\ call.whole = <<>>
    /\ call' = [call EXCEPT
                    !.whole = <<GetBitsCall(call.buffer, call.start, SpanOf(call.widths))>>]
    /\ UNCHANGED l1vars

NextGetBits ==
    \/ GetBitsField
    \/ GetBitsSpan

SpecGetBits == InitGetBits /\ [][NextGetBits]_vars

\* Bit x of byte b, bit 7 being the most significant.
BitOfByte(b, x) == (b \div 2 ^ x) % 2

\* The i-th most significant of the n bits of v.
MsbBit(v, n, k) == (v \div 2 ^ (n - 1 - k)) % 2

\* The calls made so far whose value fits one integer.
GetBitsCalls ==
    {call.out[x] : x \in 1..Len(call.out)}
        \cup {call.whole[x] : x \in {y \in 1..Len(call.whole) : call.whole[y].num_bits <= 31}}

BitByBit == call.fn = "get_bits" /\ call.widths = [k \in 1..8 |-> 1]

\* C11: get_bits(buffer, p, n) is the unsigned n-bit integer whose i-th most
\* significant bit is bit 7 - (p+i) mod 8 of byte (p+i) div 8, across byte
\* boundaries; byte 0x80 read one bit at a time gives 1,0,0,0,0,0,0,0.
C11_BitsMsbFirst ==
    call.fn = "get_bits" =>
        /\ \A c \in GetBitsCalls :
                /\ c.v >= 0
                /\ c.v \div 2 ^ (c.num_bits - 1) <= 1
                /\ \A k \in 0..(c.num_bits - 1) :
                        MsbBit(c.v, c.num_bits, k)
                            = BitOfByte(call.buffer[((c.at + k) \div 8) + 1], 7 - ((c.at + k) % 8))
        /\ (BitByBit /\ call.buffer[1] = 128 /\ call.start = 0) =>
                \A x \in 1..Len(call.out) : call.out[x].v = (IF x = 1 THEN 1 ELSE 0)

\* Byte 0x80 has been read one bit at a time from its first bit.
C11_Byte80BitByBit ==
    /\ BitByBit
    /\ call.buffer[1] = 128
    /\ call.start = 0
    /\ Len(call.out) = 8
    /\ call.out[1].v = 1

\* C12: get_bits(n) then get_bits(m), 0 < n, m <= 16, give a and b with
\* a * 2^m + b the value of one get_bits(n + m) from the same start, and either
\* way the cursor ends n + m bits after the start.
C12_SplitReadsConcatenate ==
    (call.fn = "get_bits" /\ Len(call.widths) = 2 /\ Len(call.out) = 2) =>
        LET n == call.widths[1]
            m == call.widths[2]
            a == call.out[1].v
            b == call.out[2].v
        IN  /\ call.bit_offset = call.start + n + m
            /\ call.out[2].at = call.start + n
            /\ \A x \in 1..Len(call.whole) :
                    /\ call.whole[x].num_bits = n + m
                    /\ call.whole[x].end = call.start + n + m
                    /\ IF n + m <= 31
                       THEN call.whole[x].v = a * 2 ^ m + b
                       ELSE call.whole[x].v = <<a, b>>

\* Two 16-bit reads and the 32-bit read of the same span have been made from
\* a start offset inside a byte.
C12_SixteenAndSixteen ==
    /\ call.fn = "get_bits"
    /\ call.widths = <<16, 16>>
    /\ call.start % 8 # 0
    /\ Len(call.whole) = 1
    /\ call.whole[1].v = <<call.out[1].v, call.out[2].v>>

(***************************************************************************)
(* base64_decode on its own.  A string is the sequence of its character    *)
(* codes, without the terminating 0.  mem is the memory the call finds     *)
(* around what it was given: before, the two bytes in front of the string  *)
(* (data[-2] and data[-1]); stray, what an index outside the 128-entry     *)
(* table reads: -1 or AnyWord, a word other than -1, whichever.  What the  *)
(* call leaves in a byte of the buffer is the set of the values the byte   *)
(* may have: one value where the code stored a decoded byte, several where *)
(* an AnyWord went into the byte, and all of 0..255 for a byte malloc      *)
(* returned and the decoder never wrote.                                   *)
(***************************************************************************)
b64_decode_table ==
    <<-1, -1, -1, -1, -1, -1, -1, -1, -1, -1, -1, -1, -1, -1, -1, -1,
      -1, -1, -1, -1, -1, -1, -1, -1, -1, -1, -1, -1, -1, -1, -1, -1,
      -1, -1, -1, -1, -1, -1, -1, -1, -1, -1, -1, 62, -1, -1, -1, 63,
      52, 53, 54, 55, 56, 57, 58, 59, 60, 61, -1, -1, -1, -1, -1, -1,
      -1,  0,  1,  2,  3,  4,  5,  6,  7,  8,  9, 10, 11, 12, 13, 14,
      15, 16, 17, 18, 19, 20, 21, 22, 23, 24, 25, -1, -1, -1, -1, -1,
      -1, 26, 27, 28, 29, 30, 31, 32, 33, 34, 35, 36, 37, 38, 39, 40,
      41, 42, 43, 44, 45, 46, 47, 48, 49, 50, 51, -1, -1, -1, -1, -1>>

\* The character '='.
PadChar == 61

\* data[k], k counted from 0 as in C; k < 0 is in front of the string.
CharAt(data_, mem, k) == IF k >= 0 THEN data_[k + 1] ELSE mem.before[3 + k]

\* A word read outside b64_decode_table that is not -1.  It may be any
\* other int; the decoder uses its low 12 bits, and every value of those
\* bits is possible.
AnyWord == -2

\* b64_decode_table[(int)c]; a byte from 0x80 on indexes a word outside the
\* table, and mem.stray gives the word each such byte finds.
TableAt(mem, c) == IF c \in 0..127 THEN b64_decode_table[c + 1] ELSE mem.stray[c]

\* v1..v4 of the quartet at data[k..k+3]; x is 1..4.
QuartetValue(data_, mem, k, x) ==
    IF x > 2 /\ data_[k + x] = PadChar THEN -1 ELSE TableAt(mem, data_[k + x])

\* decoded_data[idx] = val, where idx is inside the allocation; a store
\* anywhere else is recorded in wild.
Store(r, idx, val) ==
    IF idx + 1 \in DOMAIN r.decoded
    THEN [r EXCEPT !.decoded[idx + 1] = val]
    ELSE [r EXCEPT !.wild = @ \cup {idx}]

\* The body of the loop for the quartet at k, writing at j.  Or(x, y) is
\* the low byte of x | y; Shifted(v, s) are the values the low byte of
\* v >> s may have, Masked(v, n, s) those of the low byte of
\* (v & (2^n - 1)) << s.  Of an AnyWord the one takes bits s..s+7 and the
\* other bits 0..n-1, so that the bytes one AnyWord goes into vary
\* independently.
Quartet(r, v1, v2, v3, v4, j_) ==
    LET Or(x, y) ==
            LET B(k) == IF (x \div 2 ^ k) % 2 = 1 \/ (y \div 2 ^ k) % 2 = 1 THEN 2 ^ k ELSE 0
            IN  B(0) + B(1) + B(2) + B(3) + B(4) + B(5) + B(6) + B(7)
        Shifted(v, s) == IF v = AnyWord THEN 0..255 ELSE {(v \div 2 ^ s) % 256}
        Masked(v, n, s) == IF v = AnyWord THEN {x * 2 ^ s : x \in 0..(2 ^ n - 1)}
                           ELSE {(v % 2 ^ n) * 2 ^ s}
        Ors(X, Y) == {Or(x, y) : x \in X, y \in Y}
        a == Store(r, j_, Ors(Masked(v1, 6, 2), Shifted(v2, 4)))
        b == IF v3 # -1 THEN Store(a, j_ + 1, Ors(Masked(v2, 4, 4), Shifted(v3, 2))) ELSE a
    IN  IF v4 # -1 THEN Store(b, j_ + 2, Ors(Masked(v3, 2, 6), Shifted(v4, 0))) ELSE b

\* for (i = 0, j = 0; i < len; i += 4, j += 3), then decoded_data[*out_len] = '\0'.
RECURSIVE base64_loop(_, _, _, _)
base64_loop(data_, mem, k, r) ==
    IF k >= Len(data_) THEN Store(r, r.out_len, {0})
    ELSE IF r.null \/ QuartetValue(data_, mem, k, 1) = -1 \/ QuartetValue(data_, mem, k, 2) = -1
         THEN [null |-> TRUE]
    ELSE base64_loop(data_, mem, k + 4,
                     Quartet(r, QuartetValue(data_, mem, k, 1), QuartetValue(data_, mem, k, 2),
                                QuartetValue(data_, mem, k, 3), QuartetValue(data_, mem, k, 4),
                             (k \div 4) * 3))

\* What base64_decode(data_, &out_len) returns: [null |-> TRUE] for NULL, else
\* the out_len + 1 bytes of the allocation, each as the set of the values it
\* may have, and *out_len.  size_t wraps: an
\* out_len of -1 stands for SIZE_MAX, for which malloc(out_len + 1) is
\* malloc(0); -2 stands for SIZE_MAX - 1, which malloc cannot serve.
base64_decode(data_, mem) ==
    LET len_ == Len(data_)
        out_len == (len_ \div 4) * 3
                    - (IF CharAt(data_, mem, len_ - 1) = PadChar THEN 1 ELSE 0)
                    - (IF CharAt(data_, mem, len_ - 2) = PadChar THEN 1 ELSE 0)
    IN  IF len_ % 4 # 0 THEN [null |-> TRUE]
        ELSE IF out_len + 1 < 0 THEN [null |-> TRUE]
        ELSE base64_loop(data_, mem, 0,
                         [null |-> FALSE, out_len |-> out_len,
                          decoded |-> [x \in 1..(out_len + 1) |-> 0..255],
                          wild |-> {}])

\* The buffers that have in each byte one of the values the byte may have.
RECURSIVE Bytes(_)
Bytes(decoded) ==
    IF decoded = <<>> THEN {<<>>}
    ELSE {<<b>> \o rest : b \in Head(decoded), rest \in Bytes(Tail(decoded))}

\* What a call of base64_decode touches: data, the offsets into the string
\* that are read (strlen reads 0..len, the two tests in front of malloc
\* data[len - 1] and data[len - 2], the loop the quartets up to the one that
\* is rejected); table, the values used as index of b64_decode_table, a
\* character being the index as it is (a byte from 0x80 on is an index below
\* 0 where char is signed, above 127 where it is not, and is given here as
\* the byte); wild, the stores outside the allocation.
base64_touched(data_, mem) ==
    LET len_    == Len(data_)
        Bad(k)  == QuartetValue(data_, mem, k, 1) = -1 \/ QuartetValue(data_, mem, k, 2) = -1
        visited == {k \in 0..(len_ - 1) : k % 4 = 0 /\ \A m \in 0..(k - 1) : m % 4 = 0 => ~Bad(m)}
        ret     == base64_decode(data_, mem)
    IN  IF len_ % 4 # 0 THEN [data |-> 0..len_, table |-> {}, wild |-> {}]
        ELSE [data  |-> (0..len_) \cup {len_ - 1, len_ - 2},
              table |-> UNION {{data_[k + x] :
                                    x \in {y \in 1..4 : y <= 2 \/ data_[k + y] # PadChar}} :
                               k \in visited},
              wild  |-> IF ret.null THEN {} ELSE ret.wild]

\* The character that the table maps to the 6-bit value v.
b64_char(v) == CHOOSE c \in 0..127 : b64_decode_table[c + 1] = v

\* The standard padded Base64 encoding of the bytes B.
base64_encode(B) ==
    LET Byte(k) == IF k <= Len(B) THEN B[k] ELSE 0
    IN  [x \in 1..(4 * ((Len(B) + 2) \div 3)) |->
            LET g  == 3 * ((x - 1) \div 4)
                b1 == Byte(g + 1)
                b2 == Byte(g + 2)
                b3 == Byte(g + 3)
            IN  CASE x % 4 = 1 -> b64_char(b1 \div 4)
                  [] x % 4 = 2 -> b64_char((b1 % 4) * 16 + b2 \div 16)
                  [] x % 4 = 3 -> IF g + 2 > Len(B) THEN PadChar
                                  ELSE b64_char((b2 % 16) * 4 + b3 \div 64)
                  [] OTHER     -> IF g + 3 > Len(B) THEN PadChar ELSE b64_char(b3 % 64)]

\* The longest byte buffer encoded.
MaxBytes == 4

RECURSIVE ByteBuffers(_)
ByteBuffers(n) ==
    IF n = 0 THEN {<<>>}
    ELSE ByteBuffers(n - 1)
            \cup {Append(B, b) : B \in {C \in ByteBuffers(n - 1) : Len(C) = n - 1},
                                 b \in {0, 77, 255}}

\* An encoding handed over as it is, with its last characters missing, or
\* with one character replaced by '=', by '*' or by the byte 0xC8 or 0xF8.
\* No string has two bytes from 0x80 on, so that no word outside the table
\* is read twice.
Strings(e) ==
    {e} \cup {SubSeq(e, 1, Len(e) - d) : d \in {d \in 1..3 : d <= Len(e)}}
        \cup {[e EXCEPT ![k] = c] : k \in 1..Len(e), c \in {PadChar, 42, 200, 248}}

\* The memory a call meets: before, the two bytes in front of the string,
\* each '=' or not; stray, the word a byte from 0x80 on finds, -1 or not.
Mems ==
    {[before |-> b, stray |-> [c \in 128..255 |-> w]] :
        b \in {<<0, 0>>, <<0, PadChar>>, <<PadChar, 0>>, <<PadChar, PadChar>>},
        w \in {-1, AnyWord}}

InitBase64 ==
    /\ AtRest
    /\ \E B \in ByteBuffers(MaxBytes), mem \in Mems :
        \E data_ \in Strings(base64_encode(B)) :
            call = [fn |-> "base64_decode", B |-> B, enc |-> base64_encode(B),
                    data |-> data_, mem |-> mem, ret |-> <<>>, touched |-> <<>>]

Base64Decode ==
    /\ call.fn = "base64_decode"
    /\ call.ret = <<>>
    /\ call' = [call EXCEPT !.ret = <<base64_decode(call.data, call.mem)>>,
                             !.touched = <<base64_touched(call.data, call.mem)>>]
    /\ UNCHANGED l1vars

NextBase64 == Base64Decode

SpecBase64 == InitBase64 /\ [][NextBase64]_vars

\* base64_decode has returned.
Decoded == call.fn = "base64_decode" /\ call.ret # <<>>

\* C13: base64_decode of the standard padded encoding of any byte buffer B,
\* the empty one included, succeeds and returns exactly B, with out_len =
\* (len/4)*3 minus 1 for each trailing '='.
C13_RoundTrip ==
    (Decoded /\ call.data = call.enc) =>
        /\ ~call.ret[1].null
        /\ call.ret[1].out_len = Len(call.B)
        /\ call.ret[1].wild = {}
        /\ SubSeq(call.ret[1].decoded, 1, call.ret[1].out_len)
                = [k \in 1..Len(call.B) |-> {call.B[k]}]

\* The same for the buffers of one byte and more.
C13_RoundTripNonEmpty ==
    (Decoded /\ call.data = call.enc /\ call.B # <<>>) =>
        /\ ~call.ret[1].null
        /\ call.ret[1].out_len = Len(call.B)
        /\ call.ret[1].out_len
                = (Len(call.data) \div 4) * 3
                    - Cardinality({k \in {Len(call.data) - 1, Len(call.data)} :
                                        call.data[k] = PadChar})
        /\ call.ret[1].wild = {}
        /\ SubSeq(call.ret[1].decoded, 1, call.ret[1].out_len)
                = [k \in 1..Len(call.B) |-> {call.B[k]}]
        /\ call.ret[1].decoded[call.ret[1].out_len + 1] = {0}

\* The characters A-Z a-z 0-9 + / =.
Alphabet == (65..90) \cup (97..122) \cup (48..57) \cup {43, 47, PadChar}

\* C14: base64_decode returns NULL for every string whose length is not a
\* multiple of 4 and for every string with a character outside
\* A-Z a-z 0-9 + / =, in whichever position of a quartet.
C14_MalformedRejected ==
    (/\ Decoded
     /\ \/ Len(call.data) % 4 # 0
        \/ \E k \in 1..Len(call.data) : call.data[k] \notin Alphabet)
        => call.ret[1].null

\* The same for the strings that are too short or too long by 1..3
\* characters and those with a 7-bit character outside the alphabet first or
\* second in a quartet.
C14_RejectedInFirstHalf ==
    (/\ Decoded
     /\ \/ Len(call.data) % 4 # 0
        \/ \E k \in 1..Len(call.data) :
                call.data[k] \in (0..127) \ Alphabet /\ (k - 1) % 4 < 2)
        => call.ret[1].null

\* data has a '=' that is not one of the last two characters, or that a
\* character other than '=' follows.
MisplacedPad(data_) ==
    \E k \in 1..Len(data_) :
        /\ data_[k] = PadChar
        /\ \/ k < Len(data_) - 1
           \/ \E m \in (k + 1)..Len(data_) : data_[m] # PadChar

\* C15: base64_decode returns NULL, and no buffer, for every string with a
\* '=' that is not among the final one or two characters of the last
\* quartet.
C15_MisplacedPadRejected ==
    (Decoded /\ MisplacedPad(call.data)) => call.ret[1].null

\* The same for a '=' first or second in a quartet.
C15_PadInFirstHalfRejected ==
    (Decoded /\ \E k \in 1..Len(call.data) : call.data[k] = PadChar /\ (k - 1) % 4 < 2)
        => call.ret[1].null

(***************************************************************************)
(* The ModCod to SNR table and the modulation normalizer.  C strings are   *)
(* strings; a character is a string of length 1.  min_snr and max_snr are  *)
(* in hundredths of a dB, the two decimals "%.2f" prints.                  *)
(***************************************************************************)
\* {mod, cod, min_snr, max_snr}; the last row is the sentinel {{0}}.
snr_table ==
    <<<<"QPSK", "2/15", -623, -506>>, <<"QPSK", "3/15", -432, -297>>,
      <<"QPSK", "4/15", -289, -136>>, <<"QPSK", "5/15", -170, -8>>,
      <<"QPSK", "6/15", -54, 115>>, <<"QPSK", "7/15", 30, 230>>,
      <<"QPSK", "8/15", 116, 344>>, <<"QPSK", "9/15", 197, 470>>,
      <<"QPSK", "10/15", 277, 597>>, <<"QPSK", "11/15", 360, 746>>,
      <<"QPSK", "12/15", 449, 915>>, <<"QPSK", "13/15", 553, 1156>>,
      <<"16QAM", "2/15", -273, -114>>, <<"16QAM", "3/15", -25, 145>>,
      <<"16QAM", "4/15", 146, 341>>, <<"16QAM", "5/15", 282, 478>>,
      <<"16QAM", "6/15", 421, 627>>, <<"16QAM", "7/15", 521, 758>>,
      <<"16QAM", "8/15", 630, 896>>, <<"16QAM", "9/15", 732, 1028>>,
      <<"16QAM", "10/15", 836, 1173>>, <<"16QAM", "11/15", 950, 1322>>,
      <<"16QAM", "12/15", 1057, 1497>>, <<"16QAM", "13/15", 1183, 1744>>,
      <<"64QAM", "2/15", -26, 160>>, <<"64QAM", "3/15", 227, 430>>,
      <<"64QAM", "4/15", 407, 622>>, <<"64QAM", "5/15", 550, 774>>,
      <<"64QAM", "6/15", 696, 931>>, <<"64QAM", "7/15", 801, 1065>>,
      <<"64QAM", "8/15", 911, 1203>>, <<"64QAM", "9/15", 1015, 1334>>,
      <<"64QAM", "10/15", 1121, 1477>>, <<"64QAM", "11/15", 1238, 1623>>,
      <<"64QAM", "12/15", 1348, 1795>>, <<"64QAM", "13/15", 1475, 2037>>,
      <<"256QAM", "2/15", 237, 421>>, <<"256QAM", "3/15", 500, 700>>,
      <<"256QAM", "4/15", 688, 899>>, <<"256QAM", "5/15", 835, 1055>>,
      <<"256QAM", "6/15", 985, 1215>>, <<"256QAM", "7/15", 1093, 1351>>,
      <<"256QAM", "8/15", 1205, 1490>>, <<"256QAM", "9/15", 1310, 1620>>,
      <<"256QAM", "10/15", 1418, 1761>>, <<"256QAM", "11/15", 1535, 1905>>,
      <<"256QAM", "12/15", 1645, 2073>>, <<"256QAM", "13/15", 1772, 2310>>,
      <<"1024QAM", "2/15", 497, 681>>, <<"1024QAM", "3/15", 769, 970>>,
      <<"1024QAM", "4/15", 961, 1175>>, <<"1024QAM", "5/15", 1112, 1334>>,
      <<"1024QAM", "6/15", 1265, 1497>>, <<"1024QAM", "7/15", 1375, 1635>>,
      <<"1024QAM", "8/15", 1489, 1775>>, <<"1024QAM", "9/15", 1595, 1906>>,
      <<"1024QAM", "10/15", 1703, 2046>>, <<"1024QAM", "11/15", 1820, 2190>>,
      <<"1024QAM", "12/15", 1931, 2355>>, <<"1024QAM", "13/15", 2058, 2588>>,
      <<"4096QAM", "2/15", 758, 941>>, <<"4096QAM", "3/15", 1038, 1240>>,
      <<"4096QAM", "4/15", 1234, 1445>>, <<"4096QAM", "5/15", 1388, 1607>>,
      <<"4096QAM", "6/15", 1544, 1772>>, <<"4096QAM", "7/15", 1656, 1911>>,
      <<"4096QAM", "8/15", 1772, 2052>>, <<"4096QAM", "9/15", 1879, 2184>>,
      <<"4096QAM", "10/15", 1988, 2325>>, <<"4096QAM", "11/15", 2105, 2469>>,
      <<"4096QAM", "12/15", 2216, 2634>>, <<"4096QAM", "13/15", 2343, 2862>>,
      <<"", "", 0, 0>>>>

isdigit(c) == c \in {"0", "1", "2", "3", "4", "5", "6", "7", "8", "9"}

\* A toupper that leaves every character as it is.
toupper_asis(c) == c

toupper(c) ==
    LET Lower == "abcdefghijklmnopqrstuvwxyz"
        Upper == "ABCDEFGHIJKLMNOPQRSTUVWXYZ"
    IN  IF \E k \in 1..Len(Lower) : SubSeq(Lower, k, k) = c
        THEN SubSeq(Upper, CHOOSE k \in 1..Len(Lower) : SubSeq(Lower, k, k) = c,
                           CHOOSE k \in 1..Len(Lower) : SubSeq(Lower, k, k) = c)
        ELSE c

\* What snprintf(out, out_size, "%s", s) leaves in out: at most
\* out_size - 1 characters of s; with a size of 0 nothing is written and out
\* keeps what it held.
snprintf(out, out_size, s) ==
    IF out_size = 0 THEN out
    ELSE IF Len(s) < out_size THEN s
    ELSE SubSeq(s, 1, out_size - 1)

\* for (int i = 0; in[i] != '\0' && i < 15; i++), k being i.
RECURSIVE normalize_loop(_, _, _, _)
normalize_loop(in, k, digits, alphas) ==
    IF k < Len(in) /\ k < 15
    THEN IF isdigit(SubSeq(in, k + 1, k + 1))
         THEN normalize_loop(in, k + 1,
                             IF Len(digits) < 7 THEN digits \o SubSeq(in, k + 1, k + 1)
                             ELSE digits,
                             alphas)
         ELSE normalize_loop(in, k + 1, digits,
                             IF Len(alphas) < 7 THEN alphas \o toupper(SubSeq(in, k + 1, k + 1))
                             ELSE alphas)
    ELSE <<digits, alphas>>

\* What normalize_mod_str(in, out, out_size) leaves in out.
normalize_mod_str(in, out, out_size) ==
    IF Len(normalize_loop(in, 0, "", "")[1]) > 0
    THEN snprintf(out, out_size,
                  normalize_loop(in, 0, "", "")[1] \o normalize_loop(in, 0, "", "")[2])
    ELSE snprintf(out, out_size, normalize_loop(in, 0, "", "")[2])

\* A comparison of the modulation alone.
RowMatches_mod_only(row, mod, cod) == row[1] = mod

\* strcmp(snr_table[i].mod, mod) == 0 && strcmp(snr_table[i].cod, cod) == 0
RowMatches(row, mod, cod) == row[1] = mod /\ row[2] = cod

\* for (int i = 0; snr_table[i].mod[0] != 0; i++), k being i: the index of
\* the row returned, or -1 for NULL.
RECURSIVE get_snr_loop(_, _, _)
get_snr_loop(mod, cod, k) ==
    IF snr_table[k + 1][1] = "" THEN -1
    ELSE IF RowMatches(snr_table[k + 1], mod, cod) THEN k
    ELSE get_snr_loop(mod, cod, k + 1)

get_snr_for_modcod(mod, cod) == get_snr_loop(mod, cod, 0)

\* The longest of the strings built from the characters q, M and 6.  call.held
\* is what the out array holds when normalize_mod_str is called.
MaxModLen == 8

RECURSIVE ModStrings(_)
ModStrings(n) ==
    IF n = 0 THEN {""}
    ELSE ModStrings(n - 1)
            \cup {s \o c : s \in {t \in ModStrings(n - 1) : Len(t) = n - 1}, c \in {"q", "M", "6"}}

\* Modulation strings as a tuner reports them, and others.
RawMods ==
    {"qam256", "256qam", "1024qam", "QPSK", "qpsk", "qam16", "qam64", "qam1024", "qam4096",
     "Qam4096x", "q2a5m6", "16", "qam-256", "qam0123456789abc", "0123456789qamqam"}

\* Arguments of a lookup: the table's own keys and near misses.
LookupArgs ==
    {"QPSK", "16QAM", "64QAM", "256QAM", "1024QAM", "4096QAM",
     "qpsk", "QAM256", "256QAM ", "256", "8192QAM", "QPS", ""}
    \X {"2/15", "3/15", "4/15", "5/15", "6/15", "7/15", "8/15", "9/15", "10/15", "11/15",
        "12/15", "13/15", "1/15", "14/15", "7/15 ", "07/15", "7/1", ""}

InitModCod ==
    /\ AtRest
    /\ \/ \E in \in ModStrings(MaxModLen) \cup RawMods :
                call = [fn |-> "normalize_mod_str", in |-> in, held |-> "", out_size |-> 16,
                        out |-> <<>>]
       \/ \E in \in RawMods, held \in {"", "64QAM"}, out_size \in {0, 4} :
                call = [fn |-> "normalize_mod_str", in |-> in, held |-> held,
                        out_size |-> out_size, out |-> <<>>]
       \/ \E args \in LookupArgs :
                call = [fn |-> "get_snr_for_modcod", mod |-> args[1], cod |-> args[2],
                        ret |-> <<>>]

NormalizeModStr ==
    /\ call.fn = "normalize_mod_str"
    /\ call.out = <<>>
    /\ call' = [call EXCEPT !.out = <<normalize_mod_str(call.in, call.held, call.out_size)>>]
    /\ UNCHANGED l1vars

GetSnrForModcod ==
    /\ call.fn = "get_snr_for_modcod"
    /\ call.ret = <<>>
    /\ call' = [call EXCEPT !.ret = <<get_snr_for_modcod(call.mod, call.cod)>>]
    /\ UNCHANGED l1vars

NextModCod ==
    \/ NormalizeModStr
    \/ GetSnrForModcod

SpecModCod == InitModCod /\ [][NextModCod]_vars

\* The characters of s that are in S, in order.
RECURSIVE Keep(_, _)
Keep(s, S) ==
    IF s = "" THEN ""
    ELSE (IF Head(s) \in S THEN Head(s) ELSE "") \o Keep(Tail(s), S)

Chars(s) == {SubSeq(s, k, k) : k \in 1..Len(s)}

RECURSIVE UpperCased(_)
UpperCased(s) ==
    IF s = "" THEN ""
    ELSE (IF Head(s) \in Chars("abcdefghijklmnopqrstuvwxyz")
          THEN LET k == CHOOSE k \in 1..26 : SubSeq("abcdefghijklmnopqrstuvwxyz", k, k) = Head(s)
               IN  SubSeq("ABCDEFGHIJKLMNOPQRSTUVWXYZ", k, k)
          ELSE Head(s)) \o UpperCased(Tail(s))

Digits == Chars("0123456789")

Letters == Chars("abcdefghijklmnopqrstuvwxyz") \cup Chars("ABCDEFGHIJKLMNOPQRSTUVWXYZ")

\* normalize_mod_str has returned for a string of letters and digits.
Normalized ==
    /\ call.fn = "normalize_mod_str"
    /\ call.out # <<>>
    /\ Chars(call.in) \subseteq Digits \cup Letters

\* C16: for a string of letters and digits with at most 7 digits and at most
\* 7 letters, and an out buffer that holds them, normalize_mod_str gives the
\* digits in input order followed by the letters, upper-cased, in input
\* order; with no digit, the upper-cased letters.
C16_DigitsThenLettersUpTo7 ==
    (/\ Normalized
     /\ Len(Keep(call.in, Digits)) <= 7
     /\ Len(Keep(call.in, Letters)) <= 7
     /\ Len(call.in) < call.out_size)
        => call.out[1] = Keep(call.in, Digits) \o UpperCased(Keep(call.in, Letters))

\* "qam256" has been normalized to "256QAM".
C16_Qam256 ==
    /\ Normalized
    /\ call.in = "qam256"
    /\ call.out_size = 16
    /\ call.out[1] = "256QAM"

\* C16 as stated, for every string of letters and digits.
C16_DigitsThenLetters ==
    Normalized => call.out[1] = Keep(call.in, Digits) \o UpperCased(Keep(call.in, Letters))

\* The rows of the table in front of the sentinel, counted from 0.
Rows == 0..(Len(snr_table) - 2)

\* C17: get_snr_for_modcod(mod, cod) returns a row exactly when the table
\* has a row with exactly this modulation and this code rate, then that row
\* with its values (QPSK 7/15: 0.30 and 2.30), and NULL for every other pair;
\* it never returns the sentinel row.
C17_LookupExact ==
    (call.fn = "get_snr_for_modcod" /\ call.ret # <<>>) =>
        LET hits == {k \in Rows : snr_table[k + 1][1] = call.mod /\ snr_table[k + 1][2] = call.cod}
        IN  /\ call.ret[1] \in Rows \cup {-1}
            /\ (hits # {}) <=> (call.ret[1] # -1)
            /\ call.ret[1] # -1 => call.ret[1] \in hits
            /\ (call.mod = "QPSK" /\ call.cod = "7/15") =>
                    /\ call.ret[1] # -1
                    /\ snr_table[call.ret[1] + 1][3] = 30
                    /\ snr_table[call.ret[1] + 1][4] = 230

\* QPSK 7/15 has been looked up and found.
C17_Qpsk7Found ==
    /\ call.fn = "get_snr_for_modcod"
    /\ call.mod = "QPSK"
    /\ call.cod = "7/15"
    /\ call.ret = <<5>>

(***************************************************************************)
(* The status mini-parser: parse_db_value and parse_status_value over the  *)
(* text a tuner reports, and the callers that use what they return.  A     *)
(* position in a string counts from 0 as in C; -1 stands for NULL.  The    *)
(* numbers in the inputs stay below 2^31, so strtol's clamping at LONG_MAX *)
(* is out of reach.                                                        *)
(***************************************************************************)
\* s[k]; the terminating 0 reads as "".
ch(s, k) == IF k < Len(s) THEN SubSeq(s, k + 1, k + 1) ELSE ""

\* s + k
From(s, k) == SubSeq(s, k + 1, Len(s))

\* strstr(s, key) as an offset into s.
strstr(s, key) ==
    IF \E k \in 0..(Len(s) - Len(key)) : SubSeq(s, k + 1, k + Len(key)) = key
    THEN CHOOSE k \in 0..(Len(s) - Len(key)) :
            /\ SubSeq(s, k + 1, k + Len(key)) = key
            /\ \A m \in 0..(k - 1) : SubSeq(s, m + 1, m + Len(key)) # key
    ELSE -1

\* A search that starts at the beginning of s whatever from is.
strchr_rewound(s, from, c) ==
    IF \E k \in 0..(Len(s) - 1) : ch(s, k) = c
    THEN CHOOSE k \in 0..(Len(s) - 1) : ch(s, k) = c /\ \A m \in 0..(k - 1) : ch(s, m) # c
    ELSE -1

\* strchr(s + from, c) as an offset into s.
strchr(s, from, c) ==
    IF \E k \in from..(Len(s) - 1) : ch(s, k) = c
    THEN CHOOSE k \in from..(Len(s) - 1) : ch(s, k) = c /\ \A m \in from..(k - 1) : ch(s, m) # c
    ELSE -1

\* The value of c as a digit, 36 if it is none.
DigitValue(c) ==
    IF c # "" /\ \E k \in 1..36 : SubSeq("0123456789abcdefghijklmnopqrstuvwxyz", k, k) = c
    THEN (CHOOSE k \in 1..36 : SubSeq("0123456789abcdefghijklmnopqrstuvwxyz", k, k) = c) - 1
    ELSE IF c # "" /\ \E k \in 1..26 : SubSeq("ABCDEFGHIJKLMNOPQRSTUVWXYZ", k, k) = c
    THEN (CHOOSE k \in 1..26 : SubSeq("ABCDEFGHIJKLMNOPQRSTUVWXYZ", k, k) = c) + 9
    ELSE 36

\* The white space of isspace that strtol and sscanf's %d skip: space, tab,
\* newline, carriage return, form feed and the vertical tab (0x0b), which is
\* written as the character itself, there being no escape for it.
RECURSIVE strtol_space(_, _)
strtol_space(s, k) ==
    IF ch(s, k) \in {" ", "\t", "\n", "\r", "\f", ""} THEN strtol_space(s, k + 1) ELSE k

RECURSIVE strtol_digits(_, _, _, _)
strtol_digits(s, k, base, acc) ==
    IF DigitValue(ch(s, k)) < base
    THEN strtol_digits(s, k + 1, base, acc * base + DigitValue(ch(s, k)))
    ELSE acc

\* strtol(s, NULL, base) for base 0, 10 and 16: white space, a sign, with
\* base 0 or 16 a 0x or 0X prefix in front of a hex digit, with base 0 a
\* leading 0 for octal, then the digits of the base; 0 if there is none.
strtol(s, base) ==
    LET k0  == strtol_space(s, 0)
        k1  == IF ch(s, k0) \in {"-", "+"} THEN k0 + 1 ELSE k0
        hex == /\ base \in {0, 16}
               /\ ch(s, k1) = "0"
               /\ ch(s, k1 + 1) \in {"x", "X"}
               /\ DigitValue(ch(s, k1 + 2)) < 16
        b   == IF base # 0 THEN base
               ELSE IF hex THEN 16
               ELSE IF ch(s, k1) = "0" THEN 8
               ELSE 10
        v   == strtol_digits(s, IF hex THEN k1 + 2 ELSE k1, b, 0)
    IN  IF ch(s, k0) = "-" THEN 0 - v ELSE v

parse_db_value(status_str, key) ==
    LET key_found == strstr(status_str, key)
    IN  IF key_found # -1
        THEN LET paren_open == strchr(status_str, key_found, "(")
             IN  IF paren_open # -1 THEN strtol(From(status_str, paren_open + 1), 10)
                 ELSE -999
        ELSE -999

parse_status_value(status_str, key) ==
    LET found == strstr(status_str, key)
    IN  IF found # -1 THEN strtol(From(status_str, found + Len(key)), 0)
        ELSE -999

\* The texts searched: no token, one key=value token with or without a
\* parenthetical, or such a token behind the start of a report.  Two of the
\* numbers stand behind white space, one of them behind a vertical tab, and
\* so does one of the parentheticals.
Blobs ==
    LET Tokens == {t[1] \o t[2] \o t[3] :
                    t \in {"ss=", "bps=", "pps=", "tsid="}
                          \X {"100", "0x1f", "0X1F", "010", "08", "-35", "+5", "", "0x", "abc",
                              " 7", "12", "18234567", "-999"}
                          \X {"", "(-35dBm)", "(22dB)", "( +5)", "(-3dBm)", "()", "(x)"}}
    IN  {"", "foo=12 bar=34", "bps=18234567 pps=12345", "ss=100(-35dBm)"}
            \cup Tokens
            \cup {h \o t : h \in {"lock=(none) ", "ss=100(-35dBm) pps=12345 ", "bps=1 "},
                            t \in Tokens}

\* The results of the parsers that a caller used in a file name, a message,
\* a sum or an order comparison although their key was not in the text.
Absent(status_str, key, use) == IF strstr(status_str, key) = -1 THEN {use} ELSE {}

\* rf_channel as save_stream and the 's' key work it out from status.channel.
RfChannel(channel) ==
    LET p == IF strchr(channel, 0, ":") = -1 THEN 0 ELSE strchr(channel, 0, ":") + 1
    IN  IF DigitValue(ch(channel, p)) < 10 THEN strtol(From(channel, p), 10) ELSE 0

\* case 's' of show_plp_details_screen: the report is written to a file named
\* after the channel, the BSID and the time.  plpinfo is <<>> when the tuner
\* gives none.
SaveDetailsFile(channel, plpinfo, time_str, opened) ==
    LET bsid     == IF plpinfo # <<>> THEN parse_status_value(plpinfo[1], "bsid=") ELSE 0
        filename == "rf" \o ToString(RfChannel(channel)) \o "-bsid" \o ToString(bsid)
                        \o "-details-" \o time_str \o ".txt"
    IN  [filename |-> filename,
         message |-> IF opened THEN "Saved details to " \o filename
                     ELSE "Error: Could not open file for writing.",
         misused |-> IF plpinfo # <<>> THEN Absent(plpinfo[1], "bsid=", "bsid in file name")
                     ELSE {}]

\* db_str of draw_signal_bar, a char[16]: db_str is what sprintf writes;
\* overrun, that the text and its terminating 0 do not fit the array and
\* sprintf writes behind it, after which what the bar shows is undefined
\* from the 16th character on or altogether.
SignalBarDb(db_value, db_unit) ==
    LET d      == ToString(db_value)
        d3     == IF Len(d) = 1 THEN "  " \o d ELSE IF Len(d) = 2 THEN " " \o d ELSE d
        db_str == IF db_value # -999 THEN "[" \o d3 \o " " \o db_unit \o "]" ELSE ""
    IN  [db_str |-> db_str, overrun |-> Len(db_str) > 15]

\* %lX of a long: upper-case hexadecimal digits without leading zeros, the
\* 16 digits of the two's complement for a negative value.
RECURSIVE lX(_)
lX(n) ==
    LET X(v) == SubSeq("0123456789ABCDEF", v + 1, v + 1)
    IN  IF n < 0
        THEN "FFFFFFFF" \o X((n \div 268435456) % 16) \o X((n \div 16777216) % 16)
                \o X((n \div 1048576) % 16) \o X((n \div 65536) % 16)
                \o X((n \div 4096) % 16) \o X((n \div 256) % 16)
                \o X((n \div 16) % 16) \o X(n % 16)
        ELSE IF n < 16 THEN X(n)
        ELSE lX(n \div 16) \o X(n % 16)

\* The part of draw_status_pane that shows what the parsers returned: the
\* id line, the dB values of the two signal bars and the network rate (bps
\* shown as Mbps).  streaminfo and plpinfo are <<>> when the tuner gives none.
\* y counts the lines from 2, the channel line; a line is drawn when
\* y - scroll_offset > 0, and is <<>> when it is not.
DrawStatusPane(raw_status_str, lock_str, streaminfo, plpinfo, scroll_offset) ==
    LET bps      == parse_status_value(raw_status_str, "bps=")
        pps      == parse_status_value(raw_status_str, "pps=")
        rssi     == parse_db_value(raw_status_str, "ss=")
        snr      == parse_db_value(raw_status_str, "snq=")
        is_atsc3 == strstr(lock_str, "atsc3") # -1
        tsid     == IF streaminfo # <<>> THEN parse_status_value(streaminfo[1], "tsid=") ELSE -999
        bsid     == IF is_atsc3 /\ plpinfo # <<>> THEN parse_status_value(plpinfo[1], "bsid=")
                    ELSE -999
        id_val   == IF bsid # -999 THEN bsid ELSE tsid
    IN  [id_line |-> IF id_val # -999 /\ 3 - scroll_offset > 0
                     THEN <<(IF is_atsc3 THEN "BSID" ELSE "TSID") \o ": " \o ToString(id_val)
                                \o " (0x" \o lX(id_val) \o ")">>
                     ELSE <<>>,
         rssi |-> IF 5 - scroll_offset > 0 THEN <<SignalBarDb(rssi, "dBm")>> ELSE <<>>,
         snr |-> IF 6 - scroll_offset > 0 THEN <<SignalBarDb(snr, "dB ")>> ELSE <<>>,
         rate_bps |-> IF 8 - scroll_offset > 0
                      THEN <<IF pps > 0 /\ bps # -999 THEN bps ELSE 0>>
                      ELSE <<>>,
         misused |-> Absent(raw_status_str, "pps=", "pps compared with 0")]

\* The restarts of a capture that are followed.
MaxRestarts == 1

\* The polls of one capture before its 30 seconds are over.
MaxPolls == 2

\* te, ne and se of a debug string.
Counters(debug_str) ==
    [k \in {"te=", "ne=", "se="} |-> parse_status_value(debug_str, k)]

\* What the tuner reports as status, stream info, PLP info and debug
\* counters; stream info and PLP info are <<>> when it reports none.
Tuner ==
    [status |->
        {"ch=atsc3:33 lock=atsc3 ss=100(-35dBm) snq=80(22dB) seq=100 bps=18234567 pps=12345",
         "ch=8vsb:7 lock=8vsb ss=90 snq=70 seq=100 bps=19392712 pps=0",
         "ch=none lock=none ss=0 snq=0 seq=0",
         "ch=atsc3:33 lock=atsc3 ss=100(-35dBm) snq=80(22dB) seq=100 bps=18234567",
         "ch=8vsb:7 lock=8vsb ss=100(1000000000dBm) snq=80(100000dB) seq=100 bps=1 pps=1"},
     streaminfo |-> {<<>>, <<"tsid=0x0E51\n3: 7.1 WXYZ">>, <<"3: 7.1 WXYZ">>},
     plpinfo |-> {<<>>, <<"bsid=0x1A2B\n0: sfi=0 mod=qam256 cod=7/15 lock=1">>,
                  <<"0: sfi=0 mod=qam256 cod=7/15 lock=1">>},
     debug |-> {"", "te=0 ne=0 se=0", "te=2 ne=0 se=1", "ts=1 dev=0"}]

InitStatus ==
    /\ AtRest
    /\ \/ \E fn \in {"parse_status_value", "parse_db_value"}, status_str \in Blobs,
              key \in {"ss=", "bps=", "ps=", "s=", "tsid=", "baz="} :
                call = [fn |-> fn, status_str |-> status_str, key |-> key, ret |-> <<>>]
       \/ \E channel \in {"atsc3:33", "none"}, plpinfo \in Tuner.plpinfo, opened \in BOOLEAN :
                call = [fn |-> "show_plp_details_screen", channel |-> channel,
                        plpinfo |-> plpinfo, time_str |-> "20250101-000000",
                        opened |-> opened, out |-> <<>>]
       \/ \E raw_status_str \in Tuner.status, lock_str \in {"atsc3:0", "8vsb", "none"},
              streaminfo \in Tuner.streaminfo, plpinfo \in Tuner.plpinfo,
              scroll_offset \in {0, 2, 3, 5, 6, 8} :
                call = [fn |-> "draw_status_pane", raw_status_str |-> raw_status_str,
                        lock_str |-> lock_str, streaminfo |-> streaminfo,
                        plpinfo |-> plpinfo, scroll_offset |-> scroll_offset, out |-> <<>>]
       \/ \E autorestart_enabled \in BOOLEAN :
                call = [fn |-> "save_stream", at |-> "start",
                        autorestart_enabled |-> autorestart_enabled,
                        now |-> 0, filename |-> <<>>, start_str |-> "", debug_str |-> "",
                        polls |-> 0, elapsed_ms |-> 0, total_bytes |-> 0, restarts |-> 0,
                        error_detected |-> FALSE, aborted |-> FALSE,
                        result |-> <<>>, shown |-> "", misused |-> {}]

ParseStatusValue ==
    /\ call.fn = "parse_status_value"
    /\ call.ret = <<>>
    /\ call' = [call EXCEPT !.ret = <<parse_status_value(call.status_str, call.key)>>]
    /\ UNCHANGED l1vars

ParseDbValue ==
    /\ call.fn = "parse_db_value"
    /\ call.ret = <<>>
    /\ call' = [call EXCEPT !.ret = <<parse_db_value(call.status_str, call.key)>>]
    /\ UNCHANGED l1vars

\* The 's' key in the PLP details screen.
KeySaveDetails ==
    /\ call.fn = "show_plp_details_screen"
    /\ call.out = <<>>
    /\ call' = [call EXCEPT
                    !.out = <<SaveDetailsFile(call.channel, call.plpinfo, call.time_str,
                                              call.opened)>>]
    /\ UNCHANGED l1vars

RedrawStatusPane ==
    /\ call.fn = "draw_status_pane"
    /\ call.out = <<>>
    /\ call' = [call EXCEPT
                    !.out = <<DrawStatusPane(call.raw_status_str, call.lock_str,
                                             call.streaminfo, call.plpinfo,
                                             call.scroll_offset)>>]
    /\ UNCHANGED l1vars

\* The ATSC 1.0 capture of save_stream, from the top of while (1) to the
\* receive loop: the file is named after the second of the clock (now, in
\* milliseconds), the counters are read, the stream is started and the file
\* opened; either may fail, and NULL is returned after 2 seconds (result
\* stays <<>>).  answer is the debug string of the tuner, <<>> if it gives
\* none: debug_str is then not initialised, and the program stops on
\* reading it or reads what happens to be there (garbage).
CaptureStart ==
    /\ call.fn = "save_stream"
    /\ call.at = "start"
    /\ \E answer \in {<<>>} \cup {<<d>> : d \in Tuner.debug}, garbage \in Tuner.debug,
          survives \in BOOLEAN, begun \in {"started", "no stream", "no file"} :
            /\ answer # <<>> => garbage = "" /\ survives
            /\ call' =
                 IF ~survives THEN [call EXCEPT !.at = "crashed"]
                 ELSE [call EXCEPT
                        !.filename = <<[time_str |-> call.now \div 1000]>>,
                        !.start_str = IF answer # <<>> THEN answer[1] ELSE garbage,
                        !.debug_str = IF answer # <<>> THEN answer[1] ELSE garbage,
                        !.at = IF begun = "started" THEN "poll" ELSE "returned",
                        !.now = IF begun = "started" THEN @ ELSE @ + 2000,
                        !.shown = IF begun = "no stream" THEN "Failed to start stream."
                                  ELSE IF begun = "no file"
                                  THEN "Failed to open file for writing."
                                  ELSE @,
                        !.polls = 0,
                        !.elapsed_ms = 0,
                        !.total_bytes = 0,
                        !.error_detected = FALSE,
                        !.aborted = FALSE]
    /\ UNCHANGED l1vars

\* One turn of the receive loop: the clock is read (the last turn that is
\* followed finds the 30 seconds over), what was received is written, with
\* auto-restart the counters are read again (debug_str stays as it is when
\* the tuner gives none) and compared with those of the start, and
\* Backspace aborts.
CapturePoll ==
    /\ call.fn = "save_stream"
    /\ call.at = "poll"
    /\ call.polls < MaxPolls
    /\ \E answer \in {<<>>} \cup {<<d>> : d \in Tuner.debug}, backspace \in BOOLEAN,
          elapsed_ms \in {1000 * (call.polls + 1), 30000}, actual_size \in {0, 1048576} :
        LET debug_str == IF call.autorestart_enabled /\ answer # <<>> THEN answer[1]
                         ELSE call.debug_str
            start == Counters(call.start_str)
            cur   == Counters(debug_str)
            more  == {k \in {"te=", "ne=", "se="} : cur[k] > start[k]}
            seen  == {k \in {"te=", "ne=", "se="} :
                        \/ k = "te="
                        \/ k = "ne=" /\ "te=" \notin more
                        \/ k = "se=" /\ "te=" \notin more /\ "ne=" \notin more}
        IN  /\ call.polls + 1 = MaxPolls => elapsed_ms = 30000
            /\ ~call.autorestart_enabled => answer = <<>>
            /\ call' = [call EXCEPT
                !.polls = @ + 1,
                !.elapsed_ms = elapsed_ms,
                !.total_bytes = @ + actual_size,
                !.debug_str = debug_str,
                !.error_detected = call.autorestart_enabled /\ more # {},
                !.aborted = ~(call.autorestart_enabled /\ more # {}) /\ backspace,
                !.at = IF \/ call.autorestart_enabled /\ more # {}
                          \/ backspace
                          \/ elapsed_ms >= 30000
                       THEN "end" ELSE "poll",
                !.misused = IF call.autorestart_enabled
                            THEN @ \cup UNION {Absent(debug_str, k, k \o " compared")
                                                    \cup Absent(call.start_str, k, k \o " compared") :
                                                k \in seen}
                            ELSE @]
    /\ UNCHANGED l1vars

\* After the loop: an aborted capture is reported; otherwise the counters are
\* read once more, a capture with an error is removed and started again
\* after a second, and any other is reported with its size and the
\* differences of the counters.
CaptureEnd ==
    /\ call.fn = "save_stream"
    /\ call.at = "end"
    /\ \E answer \in {<<>>} \cup {<<d>> : d \in Tuner.debug} :
        LET debug_str == IF answer # <<>> THEN answer[1] ELSE call.debug_str
            after     == call.now + call.elapsed_ms
        IN  IF call.aborted
            THEN /\ answer = <<>>
                 /\ call' = [call EXCEPT
                        !.at = "returned", !.now = after,
                        !.result = <<Line("Save aborted. Partial file %s may remain.",
                                          call.filename)>>]
            ELSE IF call.autorestart_enabled /\ call.error_detected
            THEN /\ call.restarts < MaxRestarts
                 /\ call' = [call EXCEPT !.at = "start", !.now = after + 1000,
                                          !.debug_str = debug_str, !.restarts = @ + 1]
            ELSE call' = [call EXCEPT
                    !.at = "returned", !.now = after, !.debug_str = debug_str,
                    !.result = <<Line("Saved %.2f MB to %s\nErrors: %ld transport, %ld network, %ld sequence",
                                      <<<<call.total_bytes, 1024 * 1024>>, call.filename[1]>>
                                        \o [x \in 1..3 |->
                                              Counters(debug_str)[<<"te=", "ne=", "se=">>[x]]
                                                - Counters(call.start_str)[<<"te=", "ne=", "se=">>[x]]])>>,
                    !.misused = @ \cup UNION {Absent(debug_str, k, k \o " in message")
                                                    \cup Absent(call.start_str, k, k \o " in message") :
                                                k \in {"te=", "ne=", "se="}}]
    /\ UNCHANGED l1vars

NextStatus ==
    \/ ParseStatusValue
    \/ ParseDbValue
    \/ KeySaveDetails
    \/ RedrawStatusPane
    \/ CaptureStart
    \/ CapturePoll
    \/ CaptureEnd

SpecStatus == InitStatus /\ [][NextStatus]_vars

\* The offsets at which key occurs in s.
Occurrences(s, key) == {k \in 0..(Len(s) - Len(key)) : SubSeq(s, k + 1, k + Len(key)) = key}

\* The text behind the first occurrence of key in s.
Behind(s, key) ==
    From(s, (CHOOSE k \in Occurrences(s, key) : \A m \in Occurrences(s, key) : k <= m) + Len(key))

\* The number of decimal digits s begins with.
DigitRun(s) ==
    CHOOSE n \in 0..Len(s) :
        /\ \A k \in 0..(n - 1) : DigitValue(ch(s, k)) < 10
        /\ DigitValue(ch(s, n)) >= 10

\* The number that the decimal digits at the beginning of s write.
RECURSIVE Decimal(_)
Decimal(s) ==
    IF DigitRun(s) = 0 THEN 0
    ELSE 10 * Decimal(SubSeq(s, 1, DigitRun(s) - 1)) + DigitValue(ch(s, DigitRun(s) - 1))

\* The number that the hex digits at the beginning of s write.
RECURSIVE Hex(_, _)
Hex(s, acc) == IF DigitValue(ch(s, 0)) < 16 THEN Hex(From(s, 1), 16 * acc + DigitValue(ch(s, 0))) ELSE acc

\* s read as the claim reads a number: a 0x prefix means hex, anything else
\* decimal; a sign may precede.
HexOrDecimal(s) ==
    LET t == IF ch(s, 0) \in {"-", "+"} THEN From(s, 1) ELSE s
        v == IF ch(t, 0) = "0" /\ ch(t, 1) \in {"x", "X"} /\ DigitValue(ch(t, 2)) < 16
             THEN Hex(From(t, 2), 0)
             ELSE Decimal(t)
    IN  IF ch(s, 0) = "-" THEN 0 - v ELSE v

\* s begins with a number: an optional sign and a digit.
Numeric(s) ==
    DigitValue(ch(IF ch(s, 0) \in {"-", "+"} THEN From(s, 1) ELSE s, 0)) < 10

StatusParsed == call.fn = "parse_status_value" /\ call.ret # <<>>

\* C18: parse_status_value returns -999 when key does not occur in the blob;
\* otherwise the number behind the first occurrence of key as a raw
\* substring, read as hex after a 0x prefix and as decimal otherwise.
C18_HexOrDecimal ==
    StatusParsed =>
        IF Occurrences(call.status_str, call.key) = {} THEN call.ret[1] = -999
        ELSE Numeric(Behind(call.status_str, call.key)) =>
                call.ret[1] = HexOrDecimal(Behind(call.status_str, call.key))

\* The same for the numbers that do not begin with the digit 0, or are 0x
\* hex numbers.
C18_NoLeadingZero ==
    StatusParsed =>
        IF Occurrences(call.status_str, call.key) = {} THEN call.ret[1] = -999
        ELSE (/\ Numeric(Behind(call.status_str, call.key))
              /\ LET s == Behind(call.status_str, call.key)
                     t == IF ch(s, 0) \in {"-", "+"} THEN From(s, 1) ELSE s
                 IN  ch(t, 0) # "0" \/ ch(t, 1) \in {"x", "X"} \/ DigitValue(ch(t, 1)) >= 10) =>
                call.ret[1] = HexOrDecimal(Behind(call.status_str, call.key))

DbParsed == call.fn = "parse_db_value" /\ call.ret # <<>>

\* The offsets of the "(" in s at or after the first occurrence of key.
Parens(s, key) ==
    {k \in 0..(Len(s) - 1) :
        /\ ch(s, k) = "("
        /\ \E m \in Occurrences(s, key) : m <= k /\ \A x \in Occurrences(s, key) : m <= x}

\* C20: parse_db_value returns the decimal integer that immediately follows
\* the first "(" at or after the first occurrence of key, and -999 when key
\* does not occur or no "(" follows it.
C20_DecimalBehindParen ==
    DbParsed =>
        IF Parens(call.status_str, call.key) = {} THEN call.ret[1] = -999
        ELSE LET p == CHOOSE k \in Parens(call.status_str, call.key) :
                            \A m \in Parens(call.status_str, call.key) : k <= m
                 s == From(call.status_str, p + 1)
             IN  Numeric(s) =>
                    call.ret[1] = (IF ch(s, 0) = "-" THEN 0 - Decimal(From(s, 1))
                                   ELSE IF ch(s, 0) = "+" THEN Decimal(From(s, 1))
                                   ELSE Decimal(s))

\* "ss=100(-35dBm)" has been searched for "ss=" and gave -35.
C20_MinusThirtyFive ==
    /\ DbParsed
    /\ call.status_str = "ss=100(-35dBm)"
    /\ call.key = "ss="
    /\ call.ret = <<-35>>

\* C19: every caller compares what parse_status_value or parse_db_value
\* returned with -999 before using it: the value returned for an absent key
\* is never put into a file name or a message, nor into a sum or an order
\* comparison.
C19_SentinelChecked ==
    /\ (call.fn \in {"show_plp_details_screen", "draw_status_pane"} /\ call.out # <<>>) =>
            call.out[1].misused = {}
    /\ (call.fn = "show_plp_details_screen" /\ call.out # <<>>) =>
            strstr(call.out[1].filename, "-999") = -1
    /\ call.fn = "save_stream" =>
            /\ call.misused = {}
            /\ \A x \in 1..Len(call.result) :
                    Len(call.result[x].args) = 5 =>
                        \A k \in 3..5 : call.result[x].args[k] < 999

\* What is checked: the id line and the dB values of the status pane are
\* shown only for keys that are there, and its rate is 0 without "bps=".
C19_StatusPaneChecked ==
    (call.fn = "draw_status_pane" /\ call.out # <<>>) =>
        /\ strstr(call.raw_status_str, "(") = -1 =>
                \A x \in {call.out[1].rssi, call.out[1].snr} : \A k \in 1..Len(x) : x[k].db_str = ""
        /\ strstr(call.raw_status_str, "bps=") = -1 =>
                \A k \in 1..Len(call.out[1].rate_bps) : call.out[1].rate_bps[k] = 0
        /\ \A x \in 1..Len(call.out[1].id_line) : strstr(call.out[1].id_line[x], "-999") = -1

(***************************************************************************)
(* The decoder at the display-line cap, and its name tables.               *)
(***************************************************************************)
\* C24: at every point of parse_l1_data the bit cursor is the sum of the
\* widths of all fields the grammar has come to, whatever the line count and
\* max_lines: a line that is not stored for the cap still has its bits
\* consumed.
C24_CursorIsSumOfWidths == bit_offset = grammar_offset

\* The same while no line has been refused.
C24_CursorBelowCap == BelowCap => bit_offset = grammar_offset

\* The name table each enumerated field is rendered with.
NameTables ==
    [f \in {"L1B_papr_reduction: %s", "L1B_L1_Detail_fec_type: %s",
            "L1B_L1_Detail_additional_parity_mode: %s", "L1B_first_sub_fft_size: %s",
            "L1B_first_sub_guard_interval: %s", "L1B_first_sub_scattered_pilot_boost: %s",
            "  L1D_fft_size: %s", "  L1D_guard_interval: %s",
            "  L1D_scattered_pilot_boost: %s", "      L1D_plp_fec_type: %s",
            "      L1D_plp_mod: %s", "      L1D_plp_cod: %s"} |->
        CASE f = "L1B_papr_reduction: %s" -> L1B_papr_reduction_map
          [] f = "L1B_L1_Detail_fec_type: %s" -> L1B_L1_Detail_fec_type_map
          [] f = "L1B_L1_Detail_additional_parity_mode: %s" ->
                L1B_L1_Detail_additional_parity_mode_map
          [] f \in {"L1B_first_sub_fft_size: %s", "  L1D_fft_size: %s"} ->
                L1B_first_sub_fft_size_map
          [] f \in {"L1B_first_sub_guard_interval: %s", "  L1D_guard_interval: %s"} ->
                L1B_first_sub_guard_interval_map
          [] f \in {"L1B_first_sub_scattered_pilot_boost: %s",
                    "  L1D_scattered_pilot_boost: %s"} ->
                L1B_first_sub_scattered_pilot_boost_map
          [] f = "      L1D_plp_fec_type: %s" -> L1D_plp_fec_type_map
          [] f = "      L1D_plp_mod: %s" -> L1D_plp_mod_map
          [] OTHER -> L1D_plp_cod_map]

\* C26: every field rendered through a name table is one of the enumerated
\* fields, and the table of each has a name for every value of the field's
\* width, so the index read is below the number of entries and names an
\* entry of the table.
C26_IndexWithinTable ==
    \A x \in 1..Len(reads) :
        reads[x].shown # "" =>
            /\ reads[x].f \in DOMAIN NameTables
            /\ Pow2(reads[x].w) <= Len(NameTables[reads[x].f])
            /\ reads[x].v < Len(NameTables[reads[x].f])
            /\ reads[x].shown = NameTables[reads[x].f][reads[x].v + 1]

\* The last block read the largest values of a 2-bit, a 3-bit and a 4-bit
\* enumerated field.
C26_LargestIndices ==
    \E x, y, z \in 1..Len(reads) :
        /\ reads[x].f = "L1B_first_sub_fft_size: %s" /\ reads[x].v = 3
        /\ reads[y].f = "L1B_L1_Detail_fec_type: %s" /\ reads[y].v = 7
        /\ reads[z].f = "L1B_papr_reduction: %s" /\ reads[z].shown = "Reserved"

(***************************************************************************)
(* What base64_decode touches.                                             *)
(***************************************************************************)
\* C28: for every string, the empty one and those with bytes from 0x80 on
\* included, base64_decode reads the string at the offsets 0..len only,
\* indexes the 128-entry table at 0..127 only, and stores only within the
\* out_len + 1 bytes it allocated.
C28_TouchesOwnMemory ==
    Decoded =>
        /\ call.touched[1].data \subseteq 0..Len(call.data)
        /\ call.touched[1].table \subseteq 0..127
        /\ call.touched[1].wild = {}

\* The same for the strings that are not empty and have 7-bit characters
\* only.
C28_SevenBitNonEmpty ==
    (Decoded /\ call.data # <<>> /\ \A k \in 1..Len(call.data) : call.data[k] \in 0..127) =>
        /\ call.touched[1].data \subseteq 0..Len(call.data)
        /\ call.touched[1].table \subseteq 0..127
        /\ call.touched[1].wild = {}

(***************************************************************************)
(* show_plp_details_screen building its report: the leading blank line,    *)
(* the SLT TSID line, the lines of the PLP info with their SNR             *)
(* annotations, and the L1 section, which parse_l1_data appends to the     *)
(* same array.  Here display_lines is the whole array and line_count its   *)
(* count.  A line made without a format is Line(text, <<>>).  The PLP info *)
(* is the sequence of its lines, the pieces between the '\n'; an empty     *)
(* piece is what two '\n' in a row leave.  The call keeps as history the    *)
(* number of lines in front of the PLP lines (header) and the array as it  *)
(* is when the L1 section is come to (report).                             *)
(***************************************************************************)
\* A test that lets every line in.
HasRoom_always(line_count_) == TRUE

\* line_count < MAX_DISPLAY_LINES, the test in front of every store.
HasRoom(line_count_) == line_count_ < MAX_DISPLAY_LINES

\* strtok(..., "\n"): the next piece at or after from that is not empty, as
\* its index; 0 for NULL.
strtok(lines, from) ==
    IF \E x \in from..Len(lines) : lines[x] # ""
    THEN CHOOSE x \in from..Len(lines) : lines[x] # "" /\ \A y \in from..(x - 1) : lines[y] = ""
    ELSE 0

\* A copy that takes everything behind the key.
CopyValue_whole(line, val_start, size) ==
    IF Len(line) - val_start < size THEN From(line, val_start) ELSE ""

\* The value that starts at val_start, up to the next space or the end of
\* the line, copied into a zeroed buffer of size bytes if it fits.
CopyValue(line, val_start, size) ==
    LET val_end == strchr(line, val_start, " ")
        val_len == IF val_end # -1 THEN val_end - val_start ELSE Len(line) - val_start
    IN  IF val_len < size THEN SubSeq(line, val_start + 1, val_start + val_len) ELSE ""

\* strncmp(s, t, n) for a t of n characters: 0 if s begins with t.
strncmp(s, t, n) == IF Len(s) >= n /\ SubSeq(s, 1, n) = t THEN 0 ELSE 1

\* One turn of the loop over the lines of the PLP info, the array holding
\* line_count_ lines: the lines it stores.
PlpInfoLine(line, line_count_) ==
    IF strncmp(line, "bsid=", 5) # 0
    THEN LET mod_ptr  == strstr(line, "mod=")
             cod_ptr  == strstr(line, "cod=")
             raw_mod  == CopyValue(line, mod_ptr + 4, 16)
             snr_data == get_snr_for_modcod(normalize_mod_str(raw_mod, "", 16),
                                            CopyValue(line, cod_ptr + 4, 8))
             snr_line == IF mod_ptr # -1 /\ cod_ptr # -1 /\ HasRoom(line_count_ + 1)
                            /\ snr_data # -1
                         THEN <<Line("  -> Required SNR: Min %.2f dB, Max %.2f dB",
                                     <<snr_table[snr_data + 1][3], snr_table[snr_data + 1][4]>>)>>
                         ELSE <<>>
         IN  <<Line(line, <<>>)>> \o snr_line
                \o (IF HasRoom(line_count_ + 1 + Len(snr_line)) THEN <<Line(" ", <<>>)>> ELSE <<>>)
    ELSE <<>>

\* version_num: the leading digits of /sys/version, at most 15.
VersionNum(version_str) ==
    strtol(SubSeq(version_str, 1, IF DigitRun(version_str) < 15 THEN DigitRun(version_str) ELSE 15), 10)

\* The lines of the longest PLP info.
MaxPlpLines == 371

\* What the tuner gives as PLP info.
PlpInfos ==
    {<<"bsid=0x1A2B", "0: sfi=0 mod=qam256 cod=7/15 layer=0 ti=cti lls=1 lock=1">>,
     <<"bsid=0x00F3", "0: sfi=0 mod=qpsk cod=2/15 lock=1", "1: sfi=0 mod=qam8192 cod=7/15 lock=1",
       "2: sfi=0 mod=qam1024 cod=13/15 lock=0">>,
     <<"0: sfi=0 mod=qam16 cod=14/15", "", "1: sfi=0 cod=7/15", "bsid=77", "2: mod=qam64">>,
     <<"0: mod=qam0123456789abcd cod=7/15", "1: cod=10/15 mod=64qam">>,
     <<"0: sfi=0 mod=qam256 cod=7/15000000 lock=1", "", "">>,
     <<"xbsid=5 mod=QPSK cod=13/15", "1: mod= cod=2/15", "2: mod=qam4096 cod=", "none">>,
     <<"">>,
     [x \in 1..MaxPlpLines |-> "0: sfi=0 mod=qam256 cod=7/15 layer=0"],
     [x \in 1..MaxPlpLines |->
        IF x <= 2 THEN "0: sfi=0 lock=1" ELSE "1: sfi=0 mod=qpsk cod=9/15 lock=1"]}

\* What the tuner gives as /tunerN/l1detail: the Base64 text of a frame,
\* whole, cut after L1-Basic and cut inside it, and texts base64_decode
\* refuses.
L1Details ==
    LET frame == Image(Headers[1], 1, 0, 0, 0)
    IN  {base64_encode(frame), base64_encode(SubSeq(frame, 1, 25)),
         base64_encode(SubSeq(frame, 1, 4)),
         SubSeq(base64_encode(frame), 1, 10), <<42, 42, 42, 42>>}

InitReport ==
    /\ AtRest
    /\ \E plpinfo \in PlpInfos :
            call = [fn |-> "show_plp_details_screen", at |-> "start", plpinfo |-> plpinfo,
                    line |-> 0, header |-> 0, report |-> <<>>]

\* The leading blank line and the SLT TSID line with the blank line behind
\* it; then the first strtok.
ReportHeader ==
    /\ call.fn = "show_plp_details_screen"
    /\ call.at = "start"
    /\ \E streaminfo \in Tuner.streaminfo :
        LET blank == IF HasRoom(line_count) THEN <<Line(" ", <<>>)>> ELSE <<>>
            tsid  == IF streaminfo # <<>> THEN parse_status_value(streaminfo[1], "tsid=")
                     ELSE -999
            slt   == IF streaminfo # <<>> /\ tsid # -999 /\ HasRoom(line_count + Len(blank))
                     THEN <<Line("SLT TSID: %ld (0x%lX)", <<tsid, tsid>>)>>
                            \o (IF HasRoom(line_count + Len(blank) + 1)
                                THEN <<Line(" ", <<>>)>> ELSE <<>>)
                     ELSE <<>>
        IN  /\ display_lines' = display_lines \o blank \o slt
            /\ line_count' = line_count + Len(blank) + Len(slt)
    /\ call' = [call EXCEPT !.at = "plp", !.line = strtok(call.plpinfo, 1),
                            !.header = line_count']
    /\ UNCHANGED <<data, len, max_lines, pc, bit_offset,
                   L1B_num_subframes, L1B_time_info_flag, L1B_first_sub_sbs_first,
                   L1B_first_sub_sbs_last, L1B_first_sub_mimo, L1B_first_sub_mimo_mixed,
                   L1D_mimo_mixed, L1D_num_rf, L1D_mimo, L1D_num_plp, i, j,
                   reads, max_byte_read, records, detail_size, detail_at, crc_at, trailer_at,
                   grammar_offset>>

\* while (line != NULL && line_count < MAX_DISPLAY_LINES): one turn.
PlpLine ==
    /\ call.fn = "show_plp_details_screen"
    /\ call.at = "plp"
    /\ call.line # 0
    /\ HasRoom(line_count)
    /\ display_lines' = display_lines \o PlpInfoLine(call.plpinfo[call.line], line_count)
    /\ line_count' = line_count + Len(PlpInfoLine(call.plpinfo[call.line], line_count))
    /\ call' = [call EXCEPT !.line = strtok(call.plpinfo, call.line + 1)]
    /\ UNCHANGED <<data, len, max_lines, pc, bit_offset,
                   L1B_num_subframes, L1B_time_info_flag, L1B_first_sub_sbs_first,
                   L1B_first_sub_sbs_last, L1B_first_sub_mimo, L1B_first_sub_mimo_mixed,
                   L1D_mimo_mixed, L1D_num_rf, L1D_mimo, L1D_num_plp, i, j,
                   reads, max_byte_read, records, detail_size, detail_at, crc_at, trailer_at,
                   grammar_offset>>

\* After the loop: the L1 detail is asked for when the status has dB values
\* and the firmware is newer than 20250623, decoded, and handed to
\* parse_l1_data with the array and its count.  raw_status_str, version_str
\* and l1_detail_str are <<>> when the tuner gives none.
L1Detail ==
    /\ call.fn = "show_plp_details_screen"
    /\ call.at = "plp"
    /\ call.line = 0 \/ ~HasRoom(line_count)
    /\ \E raw_status_str \in {<<>>} \cup {<<s>> : s \in Tuner.status},
          version_str \in {<<>>, <<"20250815">>, <<"20250623">>, <<"20230713beta1">>},
          l1_detail_str \in {<<>>} \cup {<<s>> : s \in L1Details} :
        LET has_db_values == /\ raw_status_str # <<>>
                             /\ parse_db_value(raw_status_str[1], "ss=") # -999
            version_num   == IF version_str # <<>> THEN VersionNum(version_str[1]) ELSE 0
            decoded       == IF has_db_values /\ version_num > 20250623 /\ l1_detail_str # <<>>
                             THEN base64_decode(l1_detail_str[1],
                                                [before |-> <<0, 0>>,
                                                 stray |-> [c \in 128..255 |-> -1]])
                             ELSE [null |-> TRUE]
        IN  IF decoded.null
            THEN /\ pc' = "done"
                 /\ UNCHANGED <<data, len>>
            ELSE /\ pc' = "l1b"
                 /\ data' \in Bytes(SubSeq(decoded.decoded, 1, decoded.out_len))
                 /\ len' = decoded.out_len
    /\ call' = [call EXCEPT !.at = "l1", !.report = display_lines]
    /\ UNCHANGED <<max_lines, bit_offset, display_lines, line_count,
                   L1B_num_subframes, L1B_time_info_flag, L1B_first_sub_sbs_first,
                   L1B_first_sub_sbs_last, L1B_first_sub_mimo, L1B_first_sub_mimo_mixed,
                   L1D_mimo_mixed, L1D_num_rf, L1D_mimo, L1D_num_plp, i, j,
                   reads, max_byte_read, records, detail_size, detail_at, crc_at, trailer_at,
                   grammar_offset>>

NextReport ==
    \/ ReportHeader
    \/ PlpLine
    \/ L1Detail
    \/ Next

SpecReport == InitReport /\ [][NextReport]_vars

(***************************************************************************)
(* The PLP lines of the report and their annotations.                      *)
(***************************************************************************)
\* The text behind the first key in l, up to the next space.
TokenBehind(l, key) ==
    LET b == Behind(l, key)
    IN  IF strstr(b, " ") = -1 THEN b ELSE SubSeq(b, 1, strstr(b, " "))

\* The rows of snr_table for the modulation and code rate that l names:
\* none if it lacks one of them or the table has no row for the pair.
RowsFor(l) ==
    IF Occurrences(l, "mod=") = {} \/ Occurrences(l, "cod=") = {} THEN {}
    ELSE UNION {{k \in 1..(Len(snr_table) - 1) : snr_table[k][1] = mod /\ snr_table[k][2] = cod} :
                    mod \in {normalize_mod_str(TokenBehind(l, "mod="), "", 16)},
                    cod \in {TokenBehind(l, "cod=")}}

\* The lines of the report behind its header.
PlpPart == SubSeq(call.report, call.header + 1, Len(call.report))

IsPlpLine(l) == l.args = <<>> /\ l.fmt # " "

IsSnrLine(l) == l.fmt = "  -> Required SNR: Min %.2f dB, Max %.2f dB"

\* In PlpPart, the lines among want are there as they are and in their
\* order, as many of them as the array has room for.
PlpLinesAre(want) ==
    LET got == SelectSeq(PlpPart, IsPlpLine)
    IN  /\ Len(got) <= Len(want)
        /\ \A x \in 1..Len(got) : got[x] = Line(want[x], <<>>)
        /\ Len(got) < Len(want) => Len(call.report) = MAX_DISPLAY_LINES

\* In PlpPart, an annotation follows a line exactly when the table has a
\* row for it, and gives that row's values; at the last place of a full
\* array no annotation follows.
SnrLinesFollow ==
    \A part \in {PlpPart} :
        /\ \A x \in 1..Len(part) : IsSnrLine(part[x]) => x > 1 /\ IsPlpLine(part[x - 1])
        /\ \A x \in 1..Len(part) :
                IsPlpLine(part[x]) =>
                    \A rows \in {RowsFor(part[x].fmt)} :
                        IF rows = {}
                        THEN x < Len(part) => ~IsSnrLine(part[x + 1])
                        ELSE IF x < Len(part)
                        THEN \E k \in rows :
                                part[x + 1] = Line("  -> Required SNR: Min %.2f dB, Max %.2f dB",
                                                   <<snr_table[k][3], snr_table[k][4]>>)
                        ELSE Len(call.report) = MAX_DISPLAY_LINES

\* The L1 section is come to, and parse_l1_data has read nothing yet.
ReportBuilt == call.fn = "show_plp_details_screen" /\ call.at = "l1" /\ bit_offset = 0

NotBsid(l) == Occurrences(l, "bsid=") = {} \/ 0 \notin Occurrences(l, "bsid=")

NotBsidNotEmpty(l) == l # "" /\ NotBsid(l)

\* C21 as stated: every line of the PLP info that does not start with
\* "bsid=" is in the report as it is and in input order, and a Required SNR
\* line follows a PLP line exactly when the line has both mod= and cod= and
\* the lookup succeeds.
C21_EveryLineVerbatim ==
    ReportBuilt =>
        /\ SelectSeq(PlpPart, IsPlpLine)
                = [x \in 1..Len(SelectSeq(call.plpinfo, NotBsid)) |->
                        Line(SelectSeq(call.plpinfo, NotBsid)[x], <<>>)]
        /\ SnrLinesFollow

\* C21: every line of the PLP info that is not empty and does not start with
\* "bsid=" is in the report as it is and in input order as long as the array
\* has room, and a Required SNR line follows a PLP line exactly when the
\* line has both mod= and cod=, the lookup succeeds and the array has room;
\* a miss leaves out the annotation only.
C21_NonEmptyLinesVerbatim ==
    ReportBuilt =>
        /\ PlpLinesAre(SelectSeq(call.plpinfo, NotBsidNotEmpty))
        /\ SnrLinesFollow

\* A report with a bsid line left out, an annotated line, and a line whose
\* lookup missed followed by further lines.
C21_HitAndMiss ==
    /\ ReportBuilt
    /\ \E x \in 1..Len(call.plpinfo) : ~NotBsid(call.plpinfo[x])
    /\ \E x \in 1..Len(PlpPart) : IsSnrLine(PlpPart[x])
    /\ \E x \in 2..(Len(PlpPart) - 2) :
            /\ IsPlpLine(PlpPart[x])
            /\ Occurrences(PlpPart[x].fmt, "mod=") # {}
            /\ Occurrences(PlpPart[x].fmt, "cod=") # {}
            /\ RowsFor(PlpPart[x].fmt) = {}
            /\ ~IsSnrLine(PlpPart[x + 1])
            /\ IsPlpLine(PlpPart[x + 2])

(***************************************************************************)
(* The bounds of the array of lines.                                       *)
(***************************************************************************)
\* C27: while show_plp_details_screen and parse_l1_data build the report,
\* line_count stays within 0..MAX_DISPLAY_LINES and never decreases, and the
\* lines stored are those at the indices below line_count, so that every
\* store is at an index below MAX_DISPLAY_LINES.
C27_CountWithinArray ==
    /\ [](line_count \in 0..MAX_DISPLAY_LINES /\ Len(display_lines) = line_count)
    /\ [][line_count' >= line_count /\ SubSeq(display_lines', 1, line_count) = display_lines]_vars

\* The PLP lines have filled the array and left lines of the PLP info
\* unread, and parse_l1_data has run over a decoded frame after that.
C27_FullArray ==
    /\ call.fn = "show_plp_details_screen"
    /\ call.at = "l1"
    /\ call.line # 0
    /\ line_count = MAX_DISPLAY_LINES
    /\ bit_offset > 0

(***************************************************************************)
(* The L1 section and the lines in front of it.                            *)
(***************************************************************************)
\* C22: once the L1 section is come to, whatever the L1 detail is (none, a
\* text base64_decode refuses, a frame cut short), the report goes on to be
\* shown with the lines it had then in front, as they were, the L1 lines
\* only added behind them.
C22_L1Additive ==
    call.fn = "show_plp_details_screen" /\ call.at = "l1" =>
        /\ pc # "crashed"
        /\ Len(display_lines) >= Len(call.report)
        /\ SubSeq(display_lines, 1, Len(call.report)) = call.report

\* Where the process goes on, the lines of the report stay in front.
C22_SurvivingRunsAdditive ==
    call.fn = "show_plp_details_screen" /\ call.at = "l1" /\ pc # "crashed" =>
        /\ Len(display_lines) >= Len(call.report)
        /\ SubSeq(display_lines, 1, Len(call.report)) = call.report

(***************************************************************************)
(* The length of L1-Basic.                                                 *)
(***************************************************************************)
\* C25: L1-Basic consumes 200 bits whatever the input, so that L1D_version
\* is read at bit offset 200.
C25_L1BasicIs200Bits == detail_at # -1 => detail_at = 200

\* The same while no line has been refused.
C25_L1BasicIs200BitsBelowCap == detail_at # -1 /\ BelowCap => detail_at = 200

(***************************************************************************)
(* The ATSC 3.0 capture of save_stream: the loop that locks the PLPs,      *)
(* calls http_save_stream and starts again after a signal error.  A file   *)
(* name is the PLP string and the second the attempt began in; the call    *)
(* keeps as history the names of the attempts in which an error was        *)
(* detected (errored).                                                     *)
(***************************************************************************)
max_save_attempts == 5

\* What the tuner gives as PLP info to the four requests of a capture, <<>>
\* being none: PLPs locked at once, locked at the third request, never, and
\* locked at once in lines that begin with white space (a space, a tab and a
\* vertical tab) or with a letter.  A tuner locks four
\* PLPs at most, with ids from 0 to 63.
CapturePlpInfos ==
    LET unlocked == <<<<"bsid=0x1A2B", "0: sfi=0 mod=qam256 cod=7/15 lock=0">>>>
        locked   == <<<<"0: sfi=0 mod=qam256 cod=7/15 lock=1", "1: sfi=0 mod=qpsk cod=4/15 lock=0",
                        "2: sfi=0 mod=qam16 cod=9/15 lock=1">>>>
        spaced   == <<<<" 3: mod=qpsk lock=1", "\t8: lock=1", "9: lock=1",
                        "x9: lock=1">>>>
    IN  {<<locked, locked, locked, locked>>, <<<<>>, unlocked, locked, unlocked>>,
         <<unlocked, <<>>, unlocked, unlocked>>, <<spaced, spaced, spaced, spaced>>}

\* The body of while (line != NULL) for one line, r being plp_str so far:
\* "p<id>" is appended if the line has lock=1 and sscanf reads a number
\* from it (white space, a sign, digits).  temp holds 7 characters and
\* plp_str 127: overrun tells that a line wrote behind one of them.  The
\* loop goes on all the same, and plp_str is here what sprintf and strcat
\* wrote, the part behind the arrays included; what is read back from there
\* is undefined.
plp_line(line, r) ==
    LET at     == strtol_space(line, 0)
        digits == IF ch(line, at) \in {"-", "+"} THEN at + 1 ELSE at
        temp   == "p" \o ToString(strtol(line, 10))
    IN  IF strstr(line, "lock=1") = -1 \/ DigitValue(ch(line, digits)) >= 10 THEN r
        ELSE [plp_str |-> r.plp_str \o temp,
              overrun |-> r.overrun \/ Len(temp) > 7 \/ Len(r.plp_str) + Len(temp) > 127]

\* plp_str after the lines of one PLP info from line k on.
RECURSIVE plp_str_of(_, _, _)
plp_str_of(lines, k, r) ==
    IF k > Len(lines) THEN r
    ELSE plp_str_of(lines, k + 1, plp_line(lines[k], r))

\* for (int retry = 0; retry < 4; retry++): plp_str at the end and the
\* seconds slept, given what the tuner answers to each of the four requests.
lock_plps(plpinfos) ==
    LET got   == [k \in 1..4 |->
                    IF plpinfos[k] = <<>> THEN [plp_str |-> "", overrun |-> FALSE]
                    ELSE plp_str_of(plpinfos[k][1], 1, [plp_str |-> "", overrun |-> FALSE])]
        first == IF \E k \in 1..4 : got[k].plp_str # ""
                 THEN CHOOSE k \in 1..4 : /\ got[k].plp_str # ""
                                           /\ \A m \in 1..(k - 1) : got[m].plp_str = ""
                 ELSE 0
    IN  [plp_str |-> IF first = 0 THEN "" ELSE got[first].plp_str,
         overrun |-> first # 0 /\ got[first].overrun,
         slept   |-> IF first = 0 THEN 3 ELSE first - 1]

\* What one turn of the receive loop meets: the clock, the key, the symbol
\* quality of the status (-1: no status), and what recv gives.
Poll(elapsed_ms, ch_, seq, recv) == [elapsed_ms |-> elapsed_ms, ch |-> ch_, seq |-> seq, recv |-> recv]

\* The courses a capture takes; each ends with the 30 seconds over, or with
\* a turn that leaves the loop.
PollTraces ==
    {<<Poll(0, "", 100, "data"), Poll(1500, "", 90, "data"), Poll(2000, "", 90, "data"),
       Poll(30000, "", 100, "EAGAIN")>>,
     <<Poll(0, "", 100, "EAGAIN"), Poll(5000, "", 100, "closed"), Poll(6000, "", 90, "data")>>,
     <<Poll(0, "", 100, "data"), Poll(2500, "KEY_BACKSPACE", 90, "data"),
       Poll(30000, "", 100, "data")>>,
     <<Poll(1000, "", 90, "data"), Poll(3000, "", 100, "ECONNRESET"), Poll(4000, "", 90, "data")>>,
     <<Poll(0, "", 100, "data"), Poll(2000, "", -1, "data"), Poll(9000, "q", 100, "data"),
       Poll(31000, "", 100, "data")>>,
     <<Poll(0, "", 100, "data"), Poll(1999, "", 0, "data"), Poll(2999, "", 99, "data"),
       Poll(30000, "", 100, "data")>>}

\* while (elapsed_ms < 30000) of http_save_stream, k being the turn: the two
\* flags and the clock when the loop is left.
RECURSIVE http_loop(_, _, _)
http_loop(polls, k, autorestart_enabled) ==
    IF k > 1 /\ polls[k - 1].elapsed_ms >= 30000
    THEN [aborted |-> FALSE, error_detected |-> FALSE, elapsed_ms |-> polls[k - 1].elapsed_ms]
    ELSE IF polls[k].ch = "KEY_BACKSPACE"
    THEN [aborted |-> TRUE, error_detected |-> FALSE, elapsed_ms |-> polls[k].elapsed_ms]
    ELSE IF /\ autorestart_enabled
            /\ polls[k].elapsed_ms >= 2000
            /\ polls[k].seq # -1
            /\ polls[k].seq < 100
    THEN [aborted |-> FALSE, error_detected |-> TRUE, elapsed_ms |-> polls[k].elapsed_ms]
    ELSE IF polls[k].recv \in {"data", "EAGAIN", "EWOULDBLOCK"}
    THEN http_loop(polls, k + 1, autorestart_enabled)
    ELSE [aborted |-> FALSE, error_detected |-> FALSE, elapsed_ms |-> polls[k].elapsed_ms]

\* The calls of http_save_stream that may fail, in the order of the code,
\* each with the error it shows.
http_errors ==
    <<<<"socket", "Error: Could not create socket.">>,
      <<"inet_pton", "Error: Invalid IP address.">>,
      <<"connect", "Error: Could not connect to device.">>,
      <<"strstr", "Error: Invalid URL for request.">>,
      <<"send", "Error: Failed to send request.">>,
      <<"fopen", "Error: Failed to open file for writing.">>>>

\* http_save_stream: fails are the calls among socket, inet_pton, connect,
\* send and fopen that fail.  The first step that fails, the search of the
\* URL for "/auto/" being one of the steps, shows its error for 2 seconds
\* and the function returns -1 with no file made; otherwise the file is made
\* and the loop runs.  elapsed_ms is the time the call takes.
http_save_stream(url, fails, polls, autorestart_enabled) ==
    LET failed == {k \in 1..Len(http_errors) :
                        \/ http_errors[k][1] \in fails
                        \/ http_errors[k][1] = "strstr" /\ strstr(url, "/auto/") = -1}
    IN  IF failed = {}
        THEN [ret |-> 0, made |-> TRUE, shown |-> ""] @@ http_loop(polls, 1, autorestart_enabled)
        ELSE [ret |-> -1, made |-> FALSE, aborted |-> FALSE, error_detected |-> FALSE,
              elapsed_ms |-> 2000,
              shown |-> http_errors[CHOOSE k \in failed : \A m \in failed : k <= m][2]]

\* A loop that starts again after every error.
StartsAgain_always(autorestart_enabled, error_detected, save_attempts) ==
    autorestart_enabled /\ error_detected

\* autorestart_enabled && error_detected && save_attempts < max_save_attempts
StartsAgain(autorestart_enabled, error_detected, save_attempts) ==
    autorestart_enabled /\ error_detected /\ save_attempts < max_save_attempts

\* The longest hdhomerun_device_wait_for_lock is taken to last, in
\* milliseconds.  The function is one of libhdhomerun and not part of the
\* source; a call of it may return at once or after any time up to this.
MaxLockWait == 2750

\* What the loop for the PLPs makes of each of the answers of the tuner.
LockedPlps == {lock_plps(plpinfos) : plpinfos \in CapturePlpInfos}

\* What http_save_stream returns on each of the courses, with and without
\* error checking.  The URL save_stream makes always has "/auto/ch" behind
\* the address, and the address is the one the tuner was found at, so that
\* of the six failures the four of socket, connect, send and fopen occur.
SavedStreams ==
    [autorestart_enabled \in BOOLEAN |->
        {http_save_stream("http://192.168.1.50:5004/auto/ch33p0?format=dbg", fails, polls,
                          autorestart_enabled) :
            fails \in {{}, {"socket"}, {"connect"}, {"send"}, {"fopen"}, {"connect", "fopen"}},
            polls \in PollTraces}]

\* now is the clock in milliseconds; result is <<>> while save_stream has not
\* returned and when it returns NULL; shown is the last error on the screen.
\* at tells where the call is: at the top of the loop ("lock"), in front of
\* http_save_stream ("save"), inside hdhomerun_device_wait_for_lock before
\* the loop starts again ("wait_restart") or at restore_and_exit
\* ("wait_exit"), "returned" or "crashed".
InitCapture ==
    /\ AtRest
    /\ \E autorestart_enabled \in BOOLEAN :
            call = [fn |-> "save_stream", at |-> "lock", is_atsc3 |-> TRUE,
                    autorestart_enabled |-> autorestart_enabled,
                    save_attempts |-> 0, now |-> 0, plp_str |-> "", files |-> {},
                    errored |-> {}, error_detected |-> FALSE, result |-> <<>>,
                    shown |-> "", overrun |-> FALSE]

\* The top of the loop: the PLPs are waited for; without a locked PLP the
\* capture is given up, the tuner set back and NULL returned; otherwise the
\* attempt is counted.  c is the call, locked what lock_plps gives, and
\* survives whether the program goes on after a write behind plp_str or
\* temp; if it does, c.overrun tells that plp_str is not what the array
\* holds.  Giving up leads to restore_and_exit, up to the call of
\* hdhomerun_device_wait_for_lock there.
capture_lock(c, locked, survives) ==
    IF locked.overrun /\ ~survives
    THEN [c EXCEPT !.at = "crashed", !.now = @ + locked.slept * 1000, !.overrun = TRUE]
    ELSE IF locked.plp_str = ""
    THEN [c EXCEPT !.at = "wait_exit",
                   !.now = @ + locked.slept * 1000 + 2000 + 500,
                   !.shown = "No locked PLPs found for ATSC 3.0 capture."]
    ELSE [c EXCEPT !.at = "save", !.now = @ + locked.slept * 1000,
                   !.plp_str = locked.plp_str,
                   !.overrun = @ \/ locked.overrun,
                   !.save_attempts = @ + 1]

\* The rest of the loop body: the file is named after the second of the
\* clock, http_save_stream runs (saved is what it gives), and the capture
\* is started again, given up or reported; each of the three ways leads,
\* after half a second, into hdhomerun_device_wait_for_lock: that of the
\* restart or that of restore_and_exit.
capture_save(c, saved) ==
    LET filename == [plp_str |-> c.plp_str, time_str |-> c.now \div 1000]
        files    == IF saved.made THEN c.files \cup {filename} ELSE c.files
        after    == c.now + saved.elapsed_ms + 500
        errored  == IF saved.error_detected THEN c.errored \cup {filename} ELSE c.errored
    IN  IF StartsAgain(c.autorestart_enabled, saved.error_detected, c.save_attempts)
        THEN [c EXCEPT !.at = "wait_restart", !.now = after,
                       !.files = files \ {filename}, !.errored = errored,
                       !.error_detected = saved.error_detected]
        ELSE IF /\ c.autorestart_enabled
                /\ saved.error_detected
                /\ c.save_attempts >= max_save_attempts
        THEN [c EXCEPT !.at = "wait_exit", !.now = after,
                       !.files = files \ {filename}, !.errored = errored,
                       !.error_detected = saved.error_detected,
                       !.result = <<"Signal too unstable. Failed after %d attempts.",
                                    max_save_attempts>>]
        ELSE [c EXCEPT !.at = "wait_exit", !.now = after,
                       !.files = files, !.errored = errored,
                       !.error_detected = saved.error_detected,
                       !.shown = IF saved.shown # "" THEN saved.shown ELSE @,
                       !.result = IF saved.aborted
                                  THEN <<"Save aborted. Partial file %s may remain.", filename>>
                                  ELSE <<"Saved capture to %s", filename>>]

\* What follows the return of hdhomerun_device_wait_for_lock after waited
\* milliseconds: one second of sleep and the next turn of the loop, or the
\* return of save_stream.
capture_resume(c, waited) ==
    IF c.at = "wait_restart"
    THEN [c EXCEPT !.at = "lock", !.now = @ + waited + 1000]
    ELSE [c EXCEPT !.at = "returned", !.now = @ + waited]

CaptureLockPlps ==
    /\ call.fn = "save_stream"
    /\ call.at = "lock"
    /\ \E locked \in LockedPlps, survives \in BOOLEAN :
            call' = capture_lock(call, locked, survives)
    /\ UNCHANGED l1vars

CaptureSave ==
    /\ call.fn = "save_stream"
    /\ call.at = "save"
    /\ \E saved \in SavedStreams[call.autorestart_enabled] :
            call' = capture_save(call, saved)
    /\ UNCHANGED l1vars

\* The call of hdhomerun_device_wait_for_lock returns.
CaptureLockWaited ==
    /\ call.fn = "save_stream"
    /\ call.at \in {"wait_restart", "wait_exit"}
    /\ \E waited \in {0, MaxLockWait} :
            call' = capture_resume(call, waited)
    /\ UNCHANGED l1vars

NextCapture ==
    \/ CaptureLockPlps
    \/ CaptureSave
    \/ CaptureLockWaited

\* The steps of save_stream follow one another as those of a sequential
\* program do; WF_vars(CaptureLockWaited) is the assumption that every call
\* of hdhomerun_device_wait_for_lock returns.
SpecCapture ==
    /\ InitCapture
    /\ [][NextCapture]_vars
    /\ WF_vars(CaptureLockPlps)
    /\ WF_vars(CaptureSave)
    /\ WF_vars(CaptureLockWaited)

\* C23: with error checking, the file of a capture in which a signal error
\* was detected is removed, the capture is started again while fewer than 5
\* attempts have been made, there are never more than 5 attempts, and the
\* loop ends: with a capture in which no error was detected or with a
\* report of failure, the file it reports as saved never being that of an
\* attempt with an error.
C23_AtMostFiveAttempts ==
    /\ [](call.fn = "save_stream" =>
            /\ call.save_attempts <= 5
            /\ call.errored \cap call.files = {}
            /\ Cardinality(call.errored) <= call.save_attempts
            /\ call.at = "lock" /\ call.save_attempts > 0 =>
                    /\ call.error_detected
                    /\ call.save_attempts < 5
                    /\ Cardinality(call.errored) = call.save_attempts
            /\ call.at = "returned" =>
                    \/ /\ call.result # <<>>
                       /\ call.result[1] \in {"Saved capture to %s",
                                              "Save aborted. Partial file %s may remain."}
                       /\ ~call.error_detected
                       /\ call.result[2] \notin call.errored
                    \/ /\ call.result # <<>>
                       /\ call.result[1] = "Signal too unstable. Failed after %d attempts."
                       /\ call.error_detected
                       /\ call.save_attempts = 5
                    \/ /\ call.result = <<>>
                       /\ call.shown = "No locked PLPs found for ATSC 3.0 capture.")
    /\ <>(call.fn = "save_stream" /\ call.at = "returned")

\* Five attempts, each with an error detected, were made and the capture
\* given up, no file left.
C23_FiveErrors ==
    /\ call.fn = "save_stream"
    /\ call.at = "returned"
    /\ call.save_attempts = 5
    /\ Cardinality(call.errored) = 5
    /\ call.files = {}
    /\ call.result[1] = "Signal too unstable. Failed after %d attempts."

(***************************************************************************)
(* The channel seek of main_loop, keys '+', '=', '-' and '_'.  The call    *)
(* keeps as history the number of channels the seek has tuned to (tuned),  *)
(* counted up to MaxTuned.                                                 *)
(***************************************************************************)
\* The count of tuned channels stops here.
MaxTuned == 69

\* chan_list.channels, sorted as populate_channel_list leaves it; <<>> when
\* chan_list.count is 0.
ChanLists == {<<>>, <<7>>, <<7, 9, 33, 36>>, <<2, 14, 69>>}

\* status.channel when the key is pressed; <<>> when the status cannot be
\* read.
SeekChannels ==
    {<<>>, <<"none">>, <<"auto:7">>, <<"8vsb:9">>, <<"atsc3:33">>, <<"auto:36">>, <<"auto:2">>,
     <<"auto:69">>, <<"auto:1">>, <<"auto:70">>, <<"auto:473000000">>}

\* From the key to the loop: current_channel, current_idx and start_channel.
seek_start(c, seek_direction, channel) ==
    LET current_channel == IF channel = <<>> THEN 0 ELSE RfChannel(channel[1])
        count           == Len(c.chan_list)
        found           == {x \in 0..(count - 1) : c.chan_list[x + 1] = current_channel}
        current_idx     == IF found # {} THEN CHOOSE x \in found : \A y \in found : x <= y
                           ELSE IF count > 0
                           THEN (IF seek_direction = 1 THEN -1 ELSE count)
                           ELSE -1
    IN  [c EXCEPT !.at = "seek", !.seek_direction = seek_direction,
                  !.current_channel = current_channel, !.current_idx = current_idx,
                  !.start_channel = current_channel, !.first_iteration = TRUE]

\* new_channel of one turn of while(1), with current_idx and current_channel
\* as the turn leaves them.
seek_next(c) ==
    LET count == Len(c.chan_list)
        idx   == (c.current_idx + c.seek_direction + count) % count
        from  == IF c.current_channel = 0
                 THEN (IF c.seek_direction = 1 THEN 1 ELSE 70)
                 ELSE c.current_channel
        moved == from + c.seek_direction   \* from >= 1: no wrap below 0
        chan  == IF moved > 69 THEN 2 ELSE IF moved < 2 THEN 69 ELSE moved
    IN  IF count > 0
        THEN [new_channel |-> c.chan_list[idx + 1], current_idx |-> idx,
              current_channel |-> c.current_channel]
        ELSE [new_channel |-> chan, current_idx |-> c.current_idx, current_channel |-> chan]

\* One turn of while(1): the loop is left when the start channel comes
\* again; otherwise the channel is tuned and watched for 2.5 seconds, which
\* a signal ("lock") or a key ("key") ends for good.
seek_turn(c, seen) ==
    LET next == seek_next(c)
    IN  IF ~c.first_iteration /\ next.new_channel = c.start_channel
        THEN [c EXCEPT !.at = "end", !.current_idx = next.current_idx,
                       !.current_channel = next.current_channel]
        ELSE [c EXCEPT !.at = IF seen = "" THEN "seek" ELSE "end",
                       !.current_idx = next.current_idx,
                       !.current_channel = next.current_channel,
                       !.first_iteration = FALSE,
                       !.tuner = next.new_channel,
                       !.seen = seen,
                       !.tuned = IF @ < MaxTuned THEN @ + 1 ELSE @]

InitSeek ==
    /\ AtRest
    /\ \E chan_list \in ChanLists :
            call = [fn |-> "main_loop", at |-> "key", chan_list |-> chan_list,
                    seek_direction |-> 0, current_channel |-> 0, current_idx |-> -1,
                    start_channel |-> 0, first_iteration |-> TRUE, tuner |-> 0,
                    seen |-> "", tuned |-> 0]

\* case '+', '=', '-', '_' up to the loop.
SeekKey ==
    /\ call.fn = "main_loop"
    /\ call.at = "key"
    /\ \E seek_direction \in {1, -1}, channel \in SeekChannels :
            call' = seek_start(call, seek_direction, channel)
    /\ UNCHANGED l1vars

\* One turn of the loop.
SeekTurn ==
    /\ call.fn = "main_loop"
    /\ call.at = "seek"
    /\ \E seen \in {"", "lock", "key"} : call' = seek_turn(call, seen)
    /\ UNCHANGED l1vars

NextSeek ==
    \/ SeekKey
    \/ SeekTurn

SpecSeek == InitSeek /\ [][NextSeek]_vars /\ WF_vars(NextSeek)

\* The channels of one cycle: those of the list, or 2..69.
SeekCycle == IF call.chan_list # <<>> THEN Len(call.chan_list) ELSE 68

\* C29: a seek ends without a key and without a signal on any channel,
\* after one cycle through the channels at most, whatever channel the tuner
\* was on.
C29_SeekEnds ==
    /\ [](call.fn = "main_loop" => call.tuned <= SeekCycle)
    /\ <>(call.fn = "main_loop" /\ call.at = "end")

\* The same for a seek that starts on a channel of the cycle.
C29_SeekEndsFromCycle ==
    \/ <>(/\ call.fn = "main_loop"
          /\ call.at = "seek"
          /\ call.first_iteration
          /\ IF call.chan_list # <<>>
             THEN \A x \in 1..Len(call.chan_list) : call.chan_list[x] # call.start_channel
             ELSE call.start_channel \notin 2..69)
    \/ /\ [](call.fn = "main_loop" => call.tuned <= SeekCycle)
       /\ <>(call.fn = "main_loop" /\ call.at = "end")

(***************************************************************************)
(* The tuner selection and the VLC stream of main_loop.  The call keeps as *)
(* history the tuner whose stream VLC was started for (streamed).          *)
(***************************************************************************)
\* The tuners discover_and_build_tuner_list finds: device_id and
\* tuner_index of each; <<>> when it finds none.
TunerLists ==
    {<<>>,
     <<[device_id |-> 4660, tuner_index |-> 0]>>,
     <<[device_id |-> 4660, tuner_index |-> 0], [device_id |-> 4660, tuner_index |-> 1],
       [device_id |-> 22136, tuner_index |-> 0], [device_id |-> 22136, tuner_index |-> 1]>>,
     <<[device_id |-> 4660, tuner_index |-> 0], [device_id |-> 22136, tuner_index |-> 0]>>}

\* The process id fork gives VLC.
VlcPid == 4711

\* The steps of stream_to_vlc in front of the fork that may fail, in the
\* order of the code, each with what is returned as the message: the status
\* with its lock, the program list, the menu (left without a program: NULL,
\* here ""), the program, the UDP port, the local address and the target.
vlc_errors ==
    <<<<"get_tuner_status", "No signal lock. Cannot start stream.">>,
      <<"get_tuner_streaminfo", "Failed to get program list.">>,
      <<"select_program_menu", "">>,
      <<"set_var program", "Failed to set program to %s.">>,
      <<"get_udp_port", "Could not find a free UDP port.">>,
      <<"socket", "Socket error determining local IP.">>,
      <<"inet_pton", "Invalid device IP address.">>,
      <<"connect", "Connect error determining local IP.">>,
      <<"getsockname", "getsockname error determining local IP.">>,
      <<"inet_ntop", "inet_ntop error determining local IP.">>,
      <<"set_var target", "Failed to set stream target.">>>>

\* stream_to_vlc: a running VLC is stopped; otherwise one is started for
\* tuner_info, unless a step before the fork fails, which leaves vlc_pid as
\* it is, or the fork fails.  outcome is the step that fails, "fork" for the
\* fork, "started" for none; selected_program is the program of the menu.
stream_to_vlc(c, tuner_info, outcome, selected_program) ==
    IF c.vlc_pid > 0
    THEN [c EXCEPT !.vlc_pid = 0, !.persistent_message = "VLC stream stopped."]
    ELSE IF \E k \in 1..Len(vlc_errors) : vlc_errors[k][1] = outcome
    THEN LET k == CHOOSE k \in 1..Len(vlc_errors) : vlc_errors[k][1] = outcome
         IN  [c EXCEPT !.persistent_message =
                            IF outcome = "set_var program"
                            THEN "Failed to set program to " \o selected_program \o "."
                            ELSE vlc_errors[k][2]]
    ELSE IF outcome = "fork"
    THEN [c EXCEPT !.vlc_pid = -1, !.persistent_message = "Failed to fork for VLC."]
    ELSE [c EXCEPT !.vlc_pid = VlcPid, !.streamed = tuner_info,
                   !.persistent_message = "Streaming to VLC..."]

\* An entry of main_loop: hd, current_device_id and highlight are set anew;
\* vlc_pid and persistent_message are static.  At the first entry vlc_pid is
\* 0; at a later one, main having called main_loop again, it is what the
\* call before left: 0, or -1 after a fork that failed.  persistent_message
\* is NULL (here "") at every entry, the key 'r' that ends a call having
\* cleared it.  result is what main_loop returns, read when at is
\* "returned".
InitVlc ==
    /\ AtRest
    /\ \E tuners \in TunerLists, vlc_pid \in {0, -1} :
            call = [fn |-> "main_loop", at |-> IF tuners = <<>> THEN "returned" ELSE "top",
                    result |-> 1,
                    tuners |-> tuners, highlight |-> 0, hd |-> 0, current_device_id |-> 0,
                    tuner_changed |-> FALSE, vlc_pid |-> vlc_pid, streamed |-> <<>>,
                    persistent_message |-> ""]

\* The head of while (1) up to the drawing: the device of the selected
\* tuner is opened when none is open or it is another than the open one,
\* and VLC is stopped when tuner_changed is set.  hd is 0 for NULL, the
\* device id otherwise; created tells whether
\* hdhomerun_device_create_from_str gives a device; if not, hd is NULL and
\* the next turn tries again.
MainLoopTop ==
    /\ call.fn = "main_loop"
    /\ call.at = "top"
    /\ \E created \in BOOLEAN :
        LET selected_tuner == call.tuners[call.highlight + 1]
            tuner_changed  == call.hd = 0 \/ call.current_device_id # selected_tuner.device_id
            stopped        == tuner_changed /\ call.vlc_pid > 0
        IN  call' = [call EXCEPT !.at = "key",
                                 !.hd = IF ~tuner_changed THEN @
                                        ELSE IF created THEN selected_tuner.device_id ELSE 0,
                                 !.current_device_id = selected_tuner.device_id,
                                 !.tuner_changed = tuner_changed,
                                 !.vlc_pid = IF stopped THEN 0 ELSE @,
                                 !.persistent_message =
                                     IF stopped THEN "VLC stopped due to tuner change." ELSE @]
    /\ UNCHANGED l1vars

\* The switch on the key key, c being the call with persistent_message
\* cleared if the key clears it.  found is what a rescan finds, outcome what
\* stream_to_vlc meets, saved what save_stream returns (NULL, here "", or
\* one of its reports, named by its format), is_atsc3 whether the
\* lock of the tuner is one of ATSC 3.0, and quit whether the screen of the
\* PLP details or of the help is left with the wish to quit.  Keys that
\* change none of the fields kept here are "c" and the like.
main_loop_switch(c, key, found, outcome, saved, is_atsc3, quit) ==
    LET total_tuners == Len(c.tuners)
    IN  CASE key = "q" ->
                [c EXCEPT !.at = "returned", !.result = 0]
          [] key = "r" ->
                [c EXCEPT !.at = IF found = <<>> THEN "returned" ELSE "top",
                          !.result = 1,
                          !.vlc_pid = IF @ > 0 THEN 0 ELSE @,
                          !.hd = 0,
                          !.current_device_id = IF c.hd # 0 THEN 0 ELSE @,
                          !.tuners = found, !.highlight = 0]
          [] key = "KEY_UP" /\ c.highlight > 0 ->
                [c EXCEPT !.at = "top", !.highlight = @ - 1, !.tuner_changed = TRUE]
          [] key = "KEY_DOWN" /\ c.highlight < total_tuners - 1 ->
                [c EXCEPT !.at = "top", !.highlight = @ + 1, !.tuner_changed = TRUE]
          [] key = "d" /\ c.hd # 0 /\ is_atsc3 /\ quit ->
                [c EXCEPT !.at = "returned", !.result = 0]
          [] key = "v" /\ c.hd # 0 ->
                [stream_to_vlc(c, c.tuners[c.highlight + 1], outcome, "3")
                    EXCEPT !.at = "top"]
          [] key \in {"s", "a"} /\ c.hd # 0 ->
                [c EXCEPT !.at = "top", !.persistent_message = saved]
          [] key \in {"x", "z"} /\ c.hd # 0 /\ is_atsc3 ->
                [c EXCEPT !.at = "top", !.persistent_message = saved]
          [] key = "h" /\ quit ->
                [c EXCEPT !.at = "returned", !.result = 0]
          [] OTHER ->
                [c EXCEPT !.at = "top"]

\* The rest of the turn: the key is read; a mouse event ends the turn; any
\* key clears persistent_message, and Enter then ends the turn; the switch
\* follows and behind it the check whether VLC has exited (exited is
\* whether waitpid reports its end).
MainLoopKey ==
    /\ call.fn = "main_loop"
    /\ call.at = "key"
    /\ \E key \in {"ERR", "KEY_MOUSE", "\n", "\r", "q", "r", "KEY_UP", "KEY_DOWN", "d", "v",
                  "s", "a", "x", "z", "h", "c"} :
       \E found \in IF key = "r" THEN TunerLists ELSE {<<>>},
          outcome \in IF key = "v"
                      THEN {vlc_errors[k][1] : k \in 1..Len(vlc_errors)} \cup {"fork", "started"}
                      ELSE {"started"},
          saved \in IF key \in {"s", "a", "x", "z"}
                    THEN {"", "Saved capture to %s",
                          "Save aborted. Partial file %s may remain.",
                          "Signal too unstable. Failed after %d attempts.",
                          "Saved %.2f MB to %s\nErrors: %ld transport, %ld network, %ld sequence"}
                    ELSE {""},
          is_atsc3 \in IF key \in {"d", "x", "z"} THEN BOOLEAN ELSE {FALSE},
          quit \in IF key \in {"d", "h"} THEN BOOLEAN ELSE {FALSE},
          exited \in BOOLEAN :
            LET clears  == call.persistent_message # "" /\ key # "ERR"
                cleared == IF clears THEN [call EXCEPT !.persistent_message = ""] ELSE call
                after   == main_loop_switch(cleared, key, found, outcome, saved, is_atsc3, quit)
            IN  call' = IF key = "KEY_MOUSE"
                        THEN [call EXCEPT !.at = "top"]
                        ELSE IF clears /\ key \in {"\n", "\r"}
                        THEN [cleared EXCEPT !.at = "top"]
                        ELSE IF after.at = "top" /\ after.vlc_pid > 0 /\ exited
                        THEN [after EXCEPT !.vlc_pid = 0,
                                           !.persistent_message = "VLC has been closed."]
                        ELSE after
    /\ UNCHANGED l1vars

\* while (1) of main: main_loop has returned 1, no device having been
\* found, and the key 'r' or 'R' calls it again; any other key ends the
\* program, as the return of 0 does.  found is what
\* discover_and_build_tuner_list finds in the new call.
MainAgain ==
    /\ call.fn = "main_loop"
    /\ call.at = "returned"
    /\ call.result = 1
    /\ \E key \in {"r", "R", "q"}, found \in TunerLists :
            call' = IF key \in {"r", "R"}
                    THEN [call EXCEPT !.at = IF found = <<>> THEN "returned" ELSE "top",
                                      !.result = 1,
                                      !.tuners = found, !.highlight = 0, !.hd = 0,
                                      !.current_device_id = 0, !.tuner_changed = FALSE]
                    ELSE [call EXCEPT !.at = "ended"]
    /\ UNCHANGED l1vars

NextVlc ==
    \/ MainLoopTop
    \/ MainLoopKey
    \/ MainAgain

SpecVlc == InitVlc /\ [][NextVlc]_vars

\* A key is about to be processed.
BeforeKey == call.fn = "main_loop" /\ call.at = "key"

\* C30: when a key is processed with VLC running, the stream is one of the
\* selected tuner: a change of the selected tuner, to another device or to
\* another tuner of the same device, has stopped VLC and reset vlc_pid.
C30_StreamOfSelectedTuner ==
    BeforeKey /\ call.vlc_pid > 0 => call.streamed = call.tuners[call.highlight + 1]

\* The same for the device alone: a running stream is one of the device of
\* the selected tuner.
C30_StreamOfSelectedDevice ==
    BeforeKey /\ call.vlc_pid > 0
        => call.streamed.device_id = call.tuners[call.highlight + 1].device_id

====
